---- MODULE Spec2Model ----
(***************************************************************************)
(* huesync: the session orchestrator (bubbletea model/Update), the         *)
(* credential store, the bridge REST client, the HueStream framer and the  *)
(* DTLS streamer, as a state machine.                                      *)
(*                                                                         *)
(* Commands (tea.Cmd) run as goroutines: `cmds` holds the ones in flight,  *)
(* `msgs` the messages they have produced and Update has not yet handled.  *)
(* Update handles one message at a time, in any order of arrival.          *)
(***************************************************************************)
EXTENDS Integers, Sequences, FiniteSets, TLC

VARIABLES
    m,          \* the bubbletea model struct
    store,      \* the credentials file
    cmds,       \* commands in flight (goroutines and timers)
    msgs,       \* messages waiting for Update
    strm,       \* the Streamer object: <<>> before NewStreamer succeeded
    wire,       \* the last datagram handed to conn.Write: <<>> before the first
    log,        \* activate / close / deactivate calls, in the order they were made
    nFrames,    \* number of captureAndSendCmd dispatched so far
    linkFails,  \* consecutive LinkButtonNotPressed results (saturating)
    storeCall,  \* the last SaveCredentials / DeleteCredentials call and the error it returned
    terminated, \* tea.Quit was returned: the program has left p.Run()
    exitCode,   \* the exit code of main
    sends,      \* SendColor calls that have returned: how many with nil, how many with an error
    disc,       \* one discovery run: DiscoverBridges, its goroutines and the scan action
    cap,        \* one call of a capturer factory: the child, the reader and the capturer
    fn,         \* one call of a function examined on its own: its arguments and its result
    runErr      \* the error p.Run() returned to main: "" for nil

vars == <<m, store, cmds, msgs, strm, wire, log, nFrames, linkFails, storeCall,
          terminated, exitCode, sends, disc, cap, fn, runErr>>

----------------------------------------------------------------------------
(* Bounds of the model *)

MaxBridges == 2     \* bridges a scan can report
MaxAreas == 2       \* entertainment areas a fetch can report
MaxDelayLen == 3    \* characters the delay input can hold
MaxFrames == 3      \* frames dispatched in one orchestrator run
MaxLinkFails == 2   \* where the count of consecutive link-button failures saturates
MaxSends == 256     \* successful sends of a streamer driven on its own
MaxFailedSends == 2 \* failed sends of a streamer driven on its own
MaxEntries == 4     \* service entries the resolver delivers in one discovery run
MaxChildFrames == 2 \* complete frames the child of a capturer writes
FrameParts == 2     \* parts a frame is copied and averaged in
MaxAreaIDLen == 37  \* bytes of the longest area id handed to the framer
MaxChannels == 2    \* channels of the longest channel list handed to the framer
MaxPixels == 2      \* pixels of the largest buffer handed to the packed averager
MaxStridePad == 2   \* bytes a row of a surface can have beyond its 4 * w
MaxPairElements == 2 \* elements of the longest array a pair reply holds
MaxRepeats == 1      \* Response signals the bus delivers a second time

----------------------------------------------------------------------------
(* Values *)

Nil == <<>>                 \* a nil pointer / nil error is the empty sequence or ""
Ptr(x) == <<x>>
Deref(p) == p[1]

BridgeIDs == 1..MaxBridges
BridgeOf(i) == [ID |-> i, IP |-> 100 + i]
\* the bridges of a scan, named in the order the discoverer emitted them
ScanLists == {[i \in 1..n |-> BridgeOf(i)] : n \in 0..MaxBridges}

AreaOf(i) == [ID |-> <<97, 48 + i>>, ChannelIDs |-> [j \in 1..i |-> 3 * (j - 1)]]
AreaLists == {[i \in 1..n |-> AreaOf(i)] : n \in 0..MaxAreas}

RGB(r, g, b) == [R |-> r, G |-> g, B |-> b]
Colors == {RGB(255, 0, 128), RGB(0, 64, 0)}

Creds(u, k) == [Username |-> u, Clientkey |-> k]
StoredCreds == Creds("U0", "K0")     \* what an earlier run may have left in the file

stateScanning == "Scanning"
statePairing == "Pairing"
statePairingWait == "PairingWait"
stateSelecting == "Selecting"
stateFetchingAreas == "FetchingAreas"
stateSelectingArea == "SelectingArea"
stateInputDelay == "InputDelay"
stateActivating == "Activating"
stateConnecting == "Connecting"
stateStreaming == "Streaming"
stateStopping == "Stopping"
stateDone == "Done"

ErrLinkButtonNotPressed == "link button not pressed"
ErrUnauthorized == "unauthorized"

HintLinkButton == "Link button not pressed."
HintRejected == "Stored credentials were rejected by the bridge."

----------------------------------------------------------------------------
(* Credential store: src/credentials.go *)

NoEntries == [i \in BridgeIDs |-> Nil]

\* permission bits: 0600 and 0700 as SaveCredentials asks for them, 0644 and 0755
\* as another program may have left them
FileMode == 384
DirMode == 448
FileModes == {FileMode, 420}
DirModes == {DirMode, 493}

\* how the calls that change the file system end: "ok"; "fail", before anything
\* was changed (MkdirAll fails, or WriteFile cannot open the file); "partial",
\* when WriteFile has truncated the file and its write or close fails
IOOutcomes == {"ok", "fail", "partial"}

\* credentials a caller saves: those stored before, or new ones
CredValues == {StoredCreds, Creds("U1", "K1")}

\* the credentials directory (dir: its mode, 0 when it does not exist) and the
\* file in it (mode 0 when absent): absent, not parseable, or a JSON map
StoreFile(dir, file, mode, entries) ==
    [dir |-> dir, file |-> file, mode |-> mode, entries |-> entries]
AbsentStore == StoreFile(DirMode, "absent", 0, NoEntries)

\* every state of the directory and the file
AnyStoreStates ==
    {StoreFile(d, "absent", 0, NoEntries) : d \in DirModes \cup {0}}
    \cup {StoreFile(d, "malformed", fm, NoEntries) : d \in DirModes, fm \in FileModes}
    \cup {StoreFile(d, "ok", fm, e) :
            d \in DirModes, fm \in FileModes, e \in [BridgeIDs -> {Nil, Ptr(StoredCreds)}]}

\* the states the orchestrator is started in: the file as this program writes
\* it, with or without the entry of each bridge, not parseable, or absent
StoreStates ==
    {st \in AnyStoreStates : st.dir = DirMode /\ st.mode \in {0, FileMode}}

readAllCredentials(st) ==
    IF st.file = "ok" THEN [creds |-> st.entries, err |-> ""]
    ELSE IF st.file = "absent" THEN [creds |-> NoEntries, err |-> "not exist"]
    ELSE [creds |-> NoEntries, err |-> "parse"]

\* a load that reports the parse error of a malformed file
LoadCredentials_ReportsParseError(st, bridgeID) ==
    LET r == readAllCredentials(st) IN
    IF r.err = "parse" THEN [creds |-> Creds("", ""), found |-> FALSE, err |-> r.err]
    ELSE IF r.err # "" THEN [creds |-> Creds("", ""), found |-> FALSE, err |-> ""]
    ELSE IF r.creds[bridgeID] = Nil THEN [creds |-> Creds("", ""), found |-> FALSE, err |-> ""]
    ELSE [creds |-> Deref(r.creds[bridgeID]), found |-> TRUE, err |-> ""]

LoadCredentials(st, bridgeID) ==
    LET r == readAllCredentials(st) IN
    IF r.err # "" THEN [creds |-> Creds("", ""), found |-> FALSE, err |-> ""]
    ELSE IF r.creds[bridgeID] = Nil THEN [creds |-> Creds("", ""), found |-> FALSE, err |-> ""]
    ELSE [creds |-> Deref(r.creds[bridgeID]), found |-> TRUE, err |-> ""]

\* os.MkdirAll(dir, 0700): creates the directory when there is none and leaves
\* an existing one as it is
MkdirAll(st) == IF st.dir = 0 THEN [st EXCEPT !.dir = DirMode] ELSE st

\* os.WriteFile(path, data, 0600): the mode is used only when the file is created
WriteFile(st, file, entries) ==
    [st EXCEPT !.file = file, !.entries = entries,
               !.mode = IF st.file = "absent" THEN FileMode ELSE @]

\* a save that adds its entry only to a file it could read
SaveCredentials_NeedsReadableFile(st, bridgeID, creds, io) ==
    LET r == readAllCredentials(st) IN
    IF io = "fail" THEN [store |-> st, err |-> "io"]
    ELSE IF io = "partial"
    THEN [store |-> WriteFile(MkdirAll(st), "malformed", NoEntries), err |-> "io"]
    ELSE IF r.err # "" THEN [store |-> WriteFile(MkdirAll(st), st.file, NoEntries), err |-> ""]
    ELSE [store |-> WriteFile(MkdirAll(st), "ok", [r.creds EXCEPT ![bridgeID] = Ptr(creds)]),
          err |-> ""]

SaveCredentials(st, bridgeID, creds, io) ==
    LET r == readAllCredentials(st)
        all == IF r.err # "" THEN NoEntries ELSE r.creds
    IN  IF io = "fail" THEN [store |-> st, err |-> "io"]
        ELSE IF io = "partial"
        THEN [store |-> WriteFile(MkdirAll(st), "malformed", NoEntries), err |-> "io"]
        ELSE [store |-> WriteFile(MkdirAll(st), "ok", [all EXCEPT ![bridgeID] = Ptr(creds)]),
              err |-> ""]

DeleteCredentials(st, bridgeID, io) ==
    LET r == readAllCredentials(st) IN
    IF r.err # "" THEN [store |-> st, err |-> r.err]
    ELSE IF io = "fail" THEN [store |-> st, err |-> "io"]
    ELSE IF io = "partial"
    THEN [store |-> WriteFile(st, "malformed", NoEntries), err |-> "io"]
    ELSE [store |-> WriteFile(st, "ok", [r.creds EXCEPT ![bridgeID] = Nil]), err |-> ""]

----------------------------------------------------------------------------
(* Bridge REST client: src/hue.go *)

pairSuccess(u, k) == [Success |-> Ptr(Creds(u, k)), Error |-> Nil]
pairError(t) == [Success |-> Nil,
                 Error |-> Ptr([Type |-> t, Description |-> "link button not pressed"])]
pairNeither == [Success |-> Nil, Error |-> Nil]

\* what the bridge can answer to POST /api: the request or the decoding fails,
\* or a JSON array decodes; a missing JSON field decodes to ""
PairReplies ==
    {[http |-> "fail", result |-> <<>>]}
    \cup {[http |-> "ok", result |-> r] :
            r \in {<<>>,
                   <<pairError(101)>>,
                   <<pairError(7)>>,
                   <<pairNeither>>,
                   <<pairSuccess("U1", "K1")>>,
                   <<pairSuccess("U1", "")>>,
                   <<pairSuccess("", "K1")>>,
                   <<pairError(101), pairSuccess("U1", "K1")>>}}

\* fmt.Errorf("bridge error %d: %s", r.Error.Type, r.Error.Description), for
\* the types and descriptions the replies of the model hold
BridgeError(t, d) ==
    CASE t = 0 /\ d = "" -> "bridge error 0: "
      [] t = 0 /\ d = "link button not pressed" -> "bridge error 0: link button not pressed"
      [] t = 7 /\ d = "" -> "bridge error 7: "
      [] t = 7 /\ d = "link button not pressed" -> "bridge error 7: link button not pressed"

\* a classification that takes every error element for the link button
PairBridge_AnyErrorIsLinkButton(reply) ==
    LET fail(e) == [username |-> "", clientkey |-> "", err |-> e] IN
    IF reply.http = "fail" THEN fail("pairing request")
    ELSE IF Len(reply.result) = 0 THEN fail("empty pair response")
    ELSE LET r == reply.result[1] IN
         IF r.Error # Nil THEN fail(ErrLinkButtonNotPressed)
         ELSE IF r.Success = Nil THEN fail("unexpected pair response")
         ELSE [username |-> Deref(r.Success).Username,
               clientkey |-> Deref(r.Success).Clientkey,
               err |-> ""]

PairBridge(reply) ==
    LET fail(e) == [username |-> "", clientkey |-> "", err |-> e] IN
    IF reply.http = "fail" THEN fail("pairing request")
    ELSE IF Len(reply.result) = 0 THEN fail("empty pair response")
    ELSE LET r == reply.result[1] IN
         IF r.Error # Nil
         THEN IF Deref(r.Error).Type = 101 THEN fail(ErrLinkButtonNotPressed)
              ELSE fail(BridgeError(Deref(r.Error).Type, Deref(r.Error).Description))
         ELSE IF r.Success = Nil THEN fail("unexpected pair response")
         ELSE [username |-> Deref(r.Success).Username,
               clientkey |-> Deref(r.Success).Clientkey,
               err |-> ""]

\* what the bridge can answer to GET entertainment_configuration
FetchReplies ==
    {[http |-> "fail", status |-> 0, data |-> <<>>],
     [http |-> "ok", status |-> 403, data |-> <<>>]}
    \cup {[http |-> "ok", status |-> 200, data |-> a] : a \in AreaLists}

FetchEntertainmentAreas(reply) ==
    IF reply.http = "fail" THEN [areas |-> <<>>, err |-> "fetching entertainment areas"]
    ELSE IF reply.status = 403 THEN [areas |-> <<>>, err |-> ErrUnauthorized]
    ELSE [areas |-> reply.data, err |-> ""]

----------------------------------------------------------------------------
(* HueStream framer and streamer: src/stream.go *)

\* a padding with spaces instead of zero bytes
padOrTruncate_PadsWithSpaces(s, n) == [i \in 1..n |-> IF i <= Len(s) THEN s[i] ELSE 32]

\* b := make([]byte, n); copy(b, s)
padOrTruncate(s, n) == [i \in 1..n |-> IF i <= Len(s) THEN s[i] ELSE 0]

RECURSIVE ChannelBlocks(_, _, _, _)
ChannelBlocks(channelIDs, r16, g16, b16) ==
    IF channelIDs = <<>> THEN <<>>
    ELSE <<Head(channelIDs),
           (r16 \div 256) % 256, r16 % 256,
           (g16 \div 256) % 256, g16 % 256,
           (b16 \div 256) % 256, b16 % 256>>
         \o ChannelBlocks(Tail(channelIDs), r16, g16, b16)

\* a framer that scales a component by 256 instead of 257
BuildHueStreamMessage_Times256(areaID, channelIDs, c, seq) ==
    <<72, 117, 101, 83, 116, 114, 101, 97, 109, 2, 0, seq, 0, 0, 0, 0>>
    \o padOrTruncate(areaID, 36)
    \o ChannelBlocks(channelIDs, (c.R * 256) % 65536, (c.G * 256) % 65536,
                     (c.B * 256) % 65536)

\* byte i of the Go slice is element i + 1 of the sequence
BuildHueStreamMessage(areaID, channelIDs, c, seq) ==
    <<72, 117, 101, 83, 116, 114, 101, 97, 109, 2, 0, seq, 0, 0, 0, 0>>
    \o padOrTruncate(areaID, 36)
    \o ChannelBlocks(channelIDs, (c.R * 257) % 65536, (c.G * 257) % 65536,
                     (c.B * 257) % 65536)

NewStreamer(areaID, channelIDs) ==
    [conn |-> "open", areaID |-> areaID, channelIDs |-> channelIDs, seq |-> 0]

\* SendColor up to the call of conn.Write: the datagram, and the streamer after s.seq++
\* the calls of SendColor that have returned, by result
NoSends == [ok |-> 0, failed |-> 0]
Returned(n, ok) == IF ok THEN [n EXCEPT !.ok = @ + 1] ELSE [n EXCEPT !.failed = @ + 1]

SendColorMsg(s, c) == BuildHueStreamMessage(s.areaID, s.channelIDs, c, s.seq)
\* a counter that wraps one step early
SendColorSeq_WrapsAt255(s) == [s EXCEPT !.seq = (s.seq + 1) % 255]

\* a streamer whose counter never advances
SendColorSeq_Stuck(s) == s

SendColorSeq(s) == [s EXCEPT !.seq = (s.seq + 1) % 256]

----------------------------------------------------------------------------
(* The components that are idle while another one is examined *)

NoDiscovery == [outer |-> "idle"]
NoFactory == [pc |-> "idle"]
NoCallOf == [name |-> "none"]

----------------------------------------------------------------------------
(* Integers of 64 bits: strconv.Atoi and time.Duration as Update uses them *)
(* (src/unnamed/part_006 lines 407-411)                                    *)

\* An int (64 bits, as on the platforms the program is built for) and a
\* time.Duration are held as their eight bytes in two's complement, lowest
\* byte first.
Zero64 == <<0, 0, 0, 0, 0, 0, 0, 0>>
MaxInt64 == <<255, 255, 255, 255, 255, 255, 255, 127>>

\* Op of the value of v: v is worked out once, before Op uses it
With(v, Op(_)) == CHOOSE y \in {Op(u) : u \in {v}} : TRUE

\* x * k + c on the eight bytes of x, byte by byte from the lowest; the
\* carry out of the highest byte comes last
MulAdd(x, k, c) ==
    LET t1 == x[1] * k + c
        t2 == x[2] * k + t1 \div 256
        t3 == x[3] * k + t2 \div 256
        t4 == x[4] * k + t3 \div 256
        t5 == x[5] * k + t4 \div 256
        t6 == x[6] * k + t5 \div 256
        t7 == x[7] * k + t6 \div 256
        t8 == x[8] * k + t7 \div 256
    IN  <<t1 % 256, t2 % 256, t3 % 256, t4 % 256, t5 % 256, t6 % 256, t7 % 256,
          t8 % 256, t8 \div 256>>

\* the int64 of a small natural number
Int64Of(n) == SubSeq(MulAdd(Zero64, 1, n), 1, 8)

IsNegative64(x) == x[8] >= 128
IsPositive64(x) == x # Zero64 /\ ~IsNegative64(x)

Pow10(e) ==
    CASE e = 0 -> 1 [] e = 1 -> 10 [] e = 2 -> 100 [] e = 3 -> 1000 [] e = 4 -> 10000
      [] e = 5 -> 100000 [] e = 6 -> 1000000

\* the number written by the n digits of ds that follow the first j, n <= 6
DigitGroup(ds, j, n) ==
    LET d(k) == IF k <= n THEN ds[j + k] * Pow10(n - k) ELSE 0
    IN  d(1) + d(2) + d(3) + d(4) + d(5) + d(6)

\* the value p of some digits, with the n digits of ds after the first j
\* appended, and whether it left the range of int
AppendDigits(p, ds, j, n) ==
    IF n <= 0 THEN p
    ELSE With(MulAdd(p.n, Pow10(n), DigitGroup(ds, j, n)),
              LAMBDA r : [n |-> SubSeq(r, 1, 8),
                          range |-> p.range \/ r[9] # 0 \/ r[8] >= 128])

\* the value of the first i digits of ds, and whether it left the range of
\* int.  The digits are taken in groups of up to six, which gives the value
\* and the range error of taking them one by one: a prefix beyond the
\* largest int stays beyond it, and the carry of a group is not cut off.
RECURSIVE DigitsValue(_, _)
DigitsValue(ds, i) ==
    IF i <= 6 THEN AppendDigits([n |-> Zero64, range |-> FALSE], ds, 0, i)
    ELSE With(DigitsValue(ds, i - 6), LAMBDA p : AppendDigits(p, ds, i - 6, 6))

\* strconv.Atoi on a string of decimal digits: the value, a syntax error for
\* "", a range error (with the value clamped) beyond the largest int
Atoi(ds) ==
    IF ds = <<>> THEN [n |-> Zero64, err |-> "syntax"]
    ELSE With(DigitsValue(ds, Len(ds)),
              LAMBDA p : IF p.range THEN [n |-> MaxInt64, err |-> "range"]
                         ELSE [n |-> p.n, err |-> ""])

\* time.Millisecond, in nanoseconds
Millisecond == 1000000

\* a delay that stops at the largest duration
DelayOf_Saturating(ms) ==
    With(MulAdd(ms, Millisecond, 0),
         LAMBDA r : IF r[9] # 0 \/ r[8] >= 128 THEN MaxInt64 ELSE SubSeq(r, 1, 8))

\* time.Duration(ms) * time.Millisecond: the product wraps around at 64 bits
DelayOf(ms) == With(ms, LAMBDA x : SubSeq(MulAdd(x, Millisecond, 0), 1, 8))

----------------------------------------------------------------------------
(* Commands and messages: src/unnamed/part_006 lines 35-69, 116-195 *)

BaseCmd ==
    [kind |-> "", id |-> 0, pc |-> "run", s |-> Nil, ip |-> 0, username |-> "",
     clientkey |-> "", areaID |-> <<>>, channelIDs |-> <<>>, d |-> Zero64,
     color |-> RGB(0, 0, 0), conn |-> "", firstErr |-> ""]

scanCmd == [BaseCmd EXCEPT !.kind = "scan"]
pairCmd(ip) == [BaseCmd EXCEPT !.kind = "pair", !.ip = ip]
fetchAreasCmd(ip, username) ==
    [BaseCmd EXCEPT !.kind = "fetch", !.ip = ip, !.username = username]
activateCmd(ip, username, areaID) ==
    [BaseCmd EXCEPT !.kind = "activate", !.ip = ip, !.username = username,
                    !.areaID = areaID]
connectCmd(ip, username, clientkey, areaID, channelIDs) ==
    [BaseCmd EXCEPT !.kind = "connect", !.ip = ip, !.username = username,
                    !.clientkey = clientkey, !.areaID = areaID,
                    !.channelIDs = channelIDs]
captureAndSendCmd(s) == [BaseCmd EXCEPT !.kind = "frame", !.s = s]
streamTickCmd(d) == [BaseCmd EXCEPT !.kind = "tick", !.d = d]
stopCmd(s, ip, username, areaID) ==
    [BaseCmd EXCEPT !.kind = "stop", !.s = s, !.ip = ip, !.username = username,
                    !.areaID = areaID]

BaseMsg ==
    [type |-> "", key |-> "", err |-> "", bridges |-> <<>>, username |-> "",
     clientkey |-> "", areas |-> <<>>, streamer |-> Nil, color |-> RGB(0, 0, 0),
     id |-> 0]

KeyMsg(k) == [BaseMsg EXCEPT !.type = "key", !.key = k]
scanDoneMsg(bridges, err) ==
    [BaseMsg EXCEPT !.type = "scanDone", !.bridges = bridges, !.err = err]
pairResultMsg(username, clientkey, err) ==
    [BaseMsg EXCEPT !.type = "pairResult", !.username = username,
                    !.clientkey = clientkey, !.err = err]
areasFetchedMsg(areas, err) ==
    [BaseMsg EXCEPT !.type = "areasFetched", !.areas = areas, !.err = err]
activateResultMsg(err) == [BaseMsg EXCEPT !.type = "activateResult", !.err = err]
connectResultMsg(streamer, err) ==
    [BaseMsg EXCEPT !.type = "connectResult", !.streamer = streamer, !.err = err]
streamTickMsg == [BaseMsg EXCEPT !.type = "streamTick"]
frameSentMsg(id, color, err) ==
    [BaseMsg EXCEPT !.type = "frameSent", !.id = id, !.color = color, !.err = err]
stopDoneMsg(err) == [BaseMsg EXCEPT !.type = "stopDone", !.err = err]

QuitKeys == {"ctrl+c", "q"}
DigitKeys == {"0"}
Keys == QuitKeys \cup DigitKeys \cup {"enter", "up", "down", "backspace", "x"}

----------------------------------------------------------------------------
(* model.Update: src/unnamed/part_006 lines 197-418.                       *)
(* Each handler gives the model, the store, the command and tea.Quit that  *)
(* Update returns for the message.                                          *)

newModel ==
    [state |-> stateScanning, bridges |-> <<>>, cursor |-> 0, selected |-> Nil,
     err |-> "", username |-> "", clientkey |-> "", pairErr |-> "", areas |-> <<>>,
     areaCursor |-> 0, selectedArea |-> Nil, delayInput |-> <<>>, captureDelay |-> Zero64,
     streamer |-> Nil, lastColor |-> RGB(0, 0, 0), streamErr |-> ""]

\* a call of the store as storeCall records it: the operation, the bridge id,
\* the credentials saved or loaded, whether load found them, the error returned
StoreCall(op, id, creds, found, err) ==
    [op |-> op, id |-> id, creds |-> creds, found |-> found, err |-> err]
NoCall == StoreCall("none", 0, Creds("", ""), FALSE, "")
Ret(mm, st, cmd, quit) ==
    [m |-> mm, store |-> st, call |-> NoCall, cmds |-> cmd, quit |-> quit]
\* the same return after a call of the store whose error Update discards
WithStore(r, op, id, creds, sr) ==
    [r EXCEPT !.store = sr.store, !.call = StoreCall(op, id, creds, FALSE, sr.err)]

startStreaming(mm, st) ==
    Ret([mm EXCEPT !.state = stateActivating], st,
        {activateCmd(Deref(mm.selected).IP, mm.username, Deref(mm.selectedArea).ID)},
        FALSE)

\* "100"
enterDelayInput(mm, st) ==
    Ret([mm EXCEPT !.delayInput = <<1, 0, 0>>, !.state = stateInputDelay], st, {}, FALSE)

UpdateQuitKey(mm, st) ==
    IF mm.state = stateStreaming
    THEN Ret([mm EXCEPT !.state = stateStopping], st,
             {stopCmd(mm.streamer, Deref(mm.selected).IP, mm.username,
                      Deref(mm.selectedArea).ID)},
             FALSE)
    ELSE Ret(mm, st, {}, TRUE)

\* a choice that pairs whatever is stored
ChooseBridge_AlwaysPairs(mm, st) ==
    Ret([mm EXCEPT !.state = statePairing], st, {}, FALSE)

\* the bridge is chosen: stored credentials or pairing (lines 240-247, 361-367)
ChooseBridge(mm, st) ==
    LET l == LoadCredentials(st, Deref(mm.selected).ID) IN
    IF l.found
    THEN LET m2 == [mm EXCEPT !.username = l.creds.Username,
                              !.clientkey = l.creds.Clientkey,
                              !.state = stateFetchingAreas]
         IN  Ret(m2, st, {fetchAreasCmd(Deref(m2.selected).IP, m2.username)}, FALSE)
    ELSE Ret([mm EXCEPT !.state = statePairing], st, {}, FALSE)

\* a scan result whose single bridge is listed for the user to choose
UpdateScanDone_ListsSingleBridge(mm, st, msg) ==
    IF msg.err # ""
    THEN Ret([mm EXCEPT !.err = msg.err, !.state = stateDone], st, {}, TRUE)
    ELSE IF Len(msg.bridges) = 0
    THEN Ret([mm EXCEPT !.err = "no Hue bridges found on the network",
                        !.state = stateDone], st, {}, TRUE)
    ELSE Ret([mm EXCEPT !.bridges = msg.bridges, !.state = stateSelecting], st, {}, FALSE)

UpdateScanDone(mm, st, msg) ==
    IF msg.err # ""
    THEN Ret([mm EXCEPT !.err = msg.err, !.state = stateDone], st, {}, TRUE)
    ELSE IF Len(msg.bridges) = 0
    THEN Ret([mm EXCEPT !.err = "no Hue bridges found on the network",
                        !.state = stateDone], st, {}, TRUE)
    ELSE IF Len(msg.bridges) = 1
    THEN ChooseBridge([mm EXCEPT !.selected = Ptr(msg.bridges[1])], st)
    ELSE Ret([mm EXCEPT !.bridges = msg.bridges, !.state = stateSelecting], st, {}, FALSE)

\* every pair failure ends the program
PairFailed_AlwaysFatal(mm, st, msg) ==
    Ret([mm EXCEPT !.err = "pairing failed", !.state = stateDone], st, {}, TRUE)

\* lines 255-264: the pair failed
PairFailed(mm, st, msg) ==
    IF msg.err = ErrLinkButtonNotPressed
    THEN Ret([mm EXCEPT !.pairErr = HintLinkButton, !.state = statePairing], st, {}, FALSE)
    ELSE Ret([mm EXCEPT !.err = "pairing failed", !.state = stateDone], st, {}, TRUE)

\* a successful pair that leaves the hint of an earlier failure in place
PairSucceeded_KeepsHint(mm, st, msg, io) ==
    LET m2 == [mm EXCEPT !.username = msg.username, !.clientkey = msg.clientkey,
                         !.state = stateFetchingAreas]
        id == Deref(mm.selected).ID
    IN  WithStore(Ret(m2, st, {fetchAreasCmd(Deref(m2.selected).IP, m2.username)}, FALSE),
                  "save", id, Creds(msg.username, msg.clientkey),
                  SaveCredentials(st, id, Creds(msg.username, msg.clientkey), io))

\* lines 265-273: the pair succeeded
PairSucceeded(mm, st, msg, io) ==
    LET m2 == [mm EXCEPT !.username = msg.username, !.clientkey = msg.clientkey,
                         !.pairErr = "", !.state = stateFetchingAreas]
        id == Deref(mm.selected).ID
    IN  WithStore(Ret(m2, st, {fetchAreasCmd(Deref(m2.selected).IP, m2.username)}, FALSE),
                  "save", id, Creds(msg.username, msg.clientkey),
                  SaveCredentials(st, id, Creds(msg.username, msg.clientkey), io))

UpdatePairResult(mm, st, msg, io) ==
    IF msg.err # "" THEN PairFailed(mm, st, msg) ELSE PairSucceeded(mm, st, msg, io)

\* a rejection that deletes the entry and keeps the client key in memory
FetchUnauthorized_KeepsClientKey(mm, st, io) ==
    LET id == Deref(mm.selected).ID IN
    WithStore(Ret([mm EXCEPT !.username = "", !.pairErr = HintRejected,
                             !.state = statePairing], st, {}, FALSE),
              "delete", id, Creds("", ""), DeleteCredentials(st, id, io))

\* a rejection that goes back to Pairing with the bridge forgotten
FetchUnauthorized_ForgetsBridge(mm, st, io) ==
    LET id == Deref(mm.selected).ID IN
    WithStore(Ret([mm EXCEPT !.username = "", !.clientkey = "", !.pairErr = HintRejected,
                             !.selected = Nil, !.state = statePairing], st, {}, FALSE),
              "delete", id, Creds("", ""), DeleteCredentials(st, id, io))

\* lines 277-284: the bridge rejected the application key
FetchUnauthorized(mm, st, io) ==
    LET id == Deref(mm.selected).ID IN
    WithStore(Ret([mm EXCEPT !.username = "", !.clientkey = "", !.pairErr = HintRejected,
                             !.state = statePairing], st, {}, FALSE),
              "delete", id, Creds("", ""), DeleteCredentials(st, id, io))

\* a fetch result whose single area is listed for the user to choose
UpdateAreasFetched_ListsSingleArea(mm, st, msg, io) ==
    IF msg.err # ""
    THEN IF msg.err = ErrUnauthorized
         THEN FetchUnauthorized(mm, st, io)
         ELSE Ret([mm EXCEPT !.err = "fetching entertainment areas", !.state = stateDone],
                  st, {}, TRUE)
    ELSE IF Len(msg.areas) = 0
    THEN Ret([mm EXCEPT !.err = "no entertainment areas configured on this bridge",
                        !.state = stateDone], st, {}, TRUE)
    ELSE Ret([mm EXCEPT !.areas = msg.areas, !.state = stateSelectingArea], st, {}, FALSE)

UpdateAreasFetched(mm, st, msg, io) ==
    IF msg.err # ""
    THEN IF msg.err = ErrUnauthorized
         THEN FetchUnauthorized(mm, st, io)
         ELSE Ret([mm EXCEPT !.err = "fetching entertainment areas", !.state = stateDone],
                  st, {}, TRUE)
    ELSE IF Len(msg.areas) = 0
    THEN Ret([mm EXCEPT !.err = "no entertainment areas configured on this bridge",
                        !.state = stateDone], st, {}, TRUE)
    ELSE IF Len(msg.areas) = 1
    THEN enterDelayInput([mm EXCEPT !.selectedArea = Ptr(msg.areas[1])], st)
    ELSE Ret([mm EXCEPT !.areas = msg.areas, !.state = stateSelectingArea], st, {}, FALSE)

UpdateActivateResult(mm, st, msg) ==
    IF msg.err # ""
    THEN Ret([mm EXCEPT !.err = "activating area", !.state = stateDone], st, {}, TRUE)
    ELSE Ret([mm EXCEPT !.state = stateConnecting], st,
             {connectCmd(Deref(mm.selected).IP, mm.username, mm.clientkey,
                         Deref(mm.selectedArea).ID, Deref(mm.selectedArea).ChannelIDs)},
             FALSE)

UpdateConnectResult(mm, st, msg) ==
    IF msg.err # ""
    THEN Ret([mm EXCEPT !.err = "connecting", !.state = stateStopping], st,
             {stopCmd(Nil, Deref(mm.selected).IP, mm.username, Deref(mm.selectedArea).ID)},
             FALSE)
    ELSE Ret([mm EXCEPT !.streamer = msg.streamer, !.state = stateStreaming], st,
             {captureAndSendCmd(msg.streamer)}, FALSE)

\* a frame handler that schedules no further tick after a failure
UpdateFrameSent_StopsOnError(mm, st, msg) ==
    IF msg.err # ""
    THEN Ret([mm EXCEPT !.streamErr = msg.err], st, {}, FALSE)
    ELSE Ret([mm EXCEPT !.lastColor = msg.color, !.streamErr = ""], st,
             {streamTickCmd(mm.captureDelay)}, FALSE)

UpdateFrameSent(mm, st, msg) ==
    LET m2 == IF msg.err # "" THEN [mm EXCEPT !.streamErr = msg.err]
              ELSE [mm EXCEPT !.lastColor = msg.color, !.streamErr = ""]
    IN  Ret(m2, st, {streamTickCmd(m2.captureDelay)}, FALSE)

\* a tick handler that dispatches nothing
UpdateStreamTick_Stalls(mm, st) == Ret(mm, st, {}, FALSE)

\* a tick handler that dispatches a frame whatever the state
UpdateStreamTick_IgnoresState(mm, st) ==
    Ret(mm, st, {captureAndSendCmd(mm.streamer)}, FALSE)

UpdateStreamTick(mm, st) ==
    IF mm.state = stateStreaming
    THEN Ret(mm, st, {captureAndSendCmd(mm.streamer)}, FALSE)
    ELSE Ret(mm, st, {}, FALSE)

\* a stop handler that takes the stop action's result as the program's result
UpdateStopDone_TakesStopResult(mm, st, msg) ==
    Ret([mm EXCEPT !.err = msg.err, !.state = stateDone], st, {}, TRUE)

UpdateStopDone(mm, st, msg) ==
    Ret([mm EXCEPT !.err = IF msg.err # "" THEN msg.err ELSE @, !.state = stateDone],
        st, {}, TRUE)

DigitOf(k) == IF k = "0" THEN 0 ELSE 1

\* the second switch of Update, on m.state, for a key that is not a quit key
UpdateKeyByState(mm, st, k) ==
    CASE mm.state = stateSelecting ->
            IF k = "up" THEN Ret([mm EXCEPT !.cursor = IF @ > 0 THEN @ - 1 ELSE @], st, {}, FALSE)
            ELSE IF k = "down"
            THEN Ret([mm EXCEPT !.cursor = IF @ < Len(mm.bridges) - 1 THEN @ + 1 ELSE @],
                     st, {}, FALSE)
            ELSE IF k = "enter"
            THEN ChooseBridge([mm EXCEPT !.selected = Ptr(mm.bridges[mm.cursor + 1])], st)
            ELSE Ret(mm, st, {}, FALSE)
      [] mm.state = statePairing ->
            IF k = "enter"
            THEN Ret([mm EXCEPT !.state = statePairingWait], st,
                     {pairCmd(Deref(mm.selected).IP)}, FALSE)
            ELSE Ret(mm, st, {}, FALSE)
      [] mm.state = stateSelectingArea ->
            IF k = "up"
            THEN Ret([mm EXCEPT !.areaCursor = IF @ > 0 THEN @ - 1 ELSE @], st, {}, FALSE)
            ELSE IF k = "down"
            THEN Ret([mm EXCEPT !.areaCursor = IF @ < Len(mm.areas) - 1 THEN @ + 1 ELSE @],
                     st, {}, FALSE)
            ELSE IF k = "enter"
            THEN enterDelayInput([mm EXCEPT !.selectedArea = Ptr(mm.areas[mm.areaCursor + 1])],
                                 st)
            ELSE Ret(mm, st, {}, FALSE)
      [] mm.state = stateInputDelay ->
            IF k \in DigitKeys
            THEN Ret([mm EXCEPT !.delayInput = Append(@, DigitOf(k))], st, {}, FALSE)
            ELSE IF k = "backspace"
            THEN Ret([mm EXCEPT !.delayInput =
                                   IF Len(@) > 0 THEN SubSeq(@, 1, Len(@) - 1) ELSE @],
                     st, {}, FALSE)
            ELSE IF k = "enter"
            THEN LET a == Atoi(mm.delayInput)
                     ms == IF a.err # "" \/ ~IsPositive64(a.n) THEN Int64Of(100) ELSE a.n
                 IN  startStreaming([mm EXCEPT !.captureDelay = DelayOf(ms)], st)
            ELSE Ret(mm, st, {}, FALSE)
      [] OTHER -> Ret(mm, st, {}, FALSE)

\* model.Update: the switch on the message type, then the switch on the state
Update(mm, st, msg, io) ==
    CASE msg.type = "key" /\ msg.key \in QuitKeys -> UpdateQuitKey(mm, st)
      [] msg.type = "key" /\ msg.key \notin QuitKeys -> UpdateKeyByState(mm, st, msg.key)
      [] msg.type = "scanDone" -> UpdateScanDone(mm, st, msg)
      [] msg.type = "pairResult" -> UpdatePairResult(mm, st, msg, io)
      [] msg.type = "areasFetched" -> UpdateAreasFetched(mm, st, msg, io)
      [] msg.type = "activateResult" -> UpdateActivateResult(mm, st, msg)
      [] msg.type = "connectResult" -> UpdateConnectResult(mm, st, msg)
      [] msg.type = "frameSent" -> UpdateFrameSent(mm, st, msg)
      [] msg.type = "streamTick" -> UpdateStreamTick(mm, st)
      [] msg.type = "stopDone" -> UpdateStopDone(mm, st, msg)

\* main: exit code 1 when the final model carries an error
\* a main that does not look at the error of the final model
ExitCodeOf_IgnoresErr(mm) == 0

\* main: m := result.(model); if m.err != nil { os.Exit(1) }
ExitCodeOf(mm) == IF mm.err # "" THEN 1 ELSE 0

----------------------------------------------------------------------------
(* The state machine *)

Init ==
    /\ m = newModel
    /\ store \in StoreStates
    /\ cmds = {scanCmd}
    /\ msgs = {}
    /\ strm = Nil
    /\ wire = <<>>
    /\ log = <<>>
    /\ nFrames = 0
    /\ linkFails = 0
    /\ storeCall = NoCall
    /\ terminated = FALSE
    /\ exitCode = -1
    /\ sends = NoSends
    /\ disc = NoDiscovery
    /\ cap = NoFactory
    /\ fn = NoCallOf
    /\ runErr = ""

\* the event loop applies Update to one message and starts the command it returns
Apply(msg, r) ==
    /\ \A c \in r.cmds : c.kind = "frame" => nFrames < MaxFrames
    /\ m' = r.m
    /\ store' = r.store
    /\ storeCall' = IF r.call.op = "none" THEN storeCall ELSE r.call
    /\ cmds' = cmds \cup {IF c.kind = "frame" THEN [c EXCEPT !.id = nFrames + 1] ELSE c :
                            c \in r.cmds}
    /\ nFrames' = nFrames + Cardinality({c \in r.cmds : c.kind = "frame"})
    /\ terminated' = r.quit
    /\ exitCode' = IF r.quit THEN ExitCodeOf(r.m) ELSE exitCode
    /\ linkFails' = IF msg.type # "pairResult" THEN linkFails
                    ELSE IF msg.err # ErrLinkButtonNotPressed THEN 0
                    ELSE IF linkFails < MaxLinkFails THEN linkFails + 1 ELSE linkFails
    /\ UNCHANGED <<strm, wire, log, sends, disc, cap, fn, runErr>>

KeyPress(k) ==
    /\ ~terminated
    /\ (m.state = stateInputDelay /\ k \in DigitKeys) => Len(m.delayInput) < MaxDelayLen
    /\ Apply(KeyMsg(k), Update(m, store, KeyMsg(k), "ok"))
    /\ UNCHANGED msgs

Handle(msg, io) ==
    /\ ~terminated
    /\ msg \in msgs
    /\ Apply(msg, Update(m, store, msg, io))
    /\ msgs' = msgs \ {msg}

\* a command finishes and hands its message to the event loop
Finish(c, msg) ==
    /\ cmds' = cmds \ {c}
    /\ msgs' = msgs \cup {msg}
    /\ UNCHANGED <<m, store, nFrames, linkFails, storeCall, terminated, exitCode, disc, cap, fn, runErr>>

\* scanCmd, lines 128-132: the bridges it collected are dropped when the
\* error channel holds an error
scanCmdResult(bridges, err) ==
    IF err # "" THEN scanDoneMsg(<<>>, err) ELSE scanDoneMsg(bridges, "")

ScanRun(c) ==
    /\ ~terminated /\ c \in cmds /\ c.kind = "scan"
    /\ \E bridges \in ScanLists, err \in {"", "browsing for Hue bridges"} :
          Finish(c, scanCmdResult(bridges, err))
    /\ UNCHANGED <<strm, wire, log, sends>>

PairRun(c) ==
    /\ ~terminated /\ c \in cmds /\ c.kind = "pair"
    /\ \E reply \in PairReplies :
          LET r == PairBridge(reply) IN Finish(c, pairResultMsg(r.username, r.clientkey, r.err))
    /\ UNCHANGED <<strm, wire, log, sends>>

FetchRun(c) ==
    /\ ~terminated /\ c \in cmds /\ c.kind = "fetch"
    /\ \E reply \in FetchReplies :
          LET r == FetchEntertainmentAreas(reply) IN Finish(c, areasFetchedMsg(r.areas, r.err))
    /\ UNCHANGED <<strm, wire, log, sends>>

LogEntry(op, c, ok) == [op |-> op, ip |-> c.ip, username |-> c.username,
                        areaID |-> c.areaID, ok |-> ok]

ActivateRun(c) ==
    /\ ~terminated /\ c \in cmds /\ c.kind = "activate"
    /\ \E ok \in BOOLEAN :
          /\ Finish(c, activateResultMsg(IF ok THEN "" ELSE "activate area"))
          /\ log' = Append(log, LogEntry("activate", c, ok))
    /\ UNCHANGED <<strm, wire, sends>>

ConnectRun(c) ==
    /\ ~terminated /\ c \in cmds /\ c.kind = "connect"
    /\ \/ /\ Finish(c, connectResultMsg(Nil, "DTLS handshake"))
          /\ UNCHANGED strm
       \/ /\ Finish(c, connectResultMsg(Ptr(1), ""))
          /\ strm' = Ptr(NewStreamer(c.areaID, c.channelIDs))
    /\ UNCHANGED <<wire, log, sends>>

\* captureAndSendCmd up to conn.Write: the capture fails, or SendColor frames the
\* averaged color, advances the sequence and enters conn.Write
FrameStart(c) ==
    /\ ~terminated /\ c \in cmds /\ c.kind = "frame" /\ c.pc = "run"
    /\ \/ /\ Finish(c, frameSentMsg(c.id, RGB(0, 0, 0), "capturing screen"))
          /\ UNCHANGED <<strm, wire>>
       \/ \E color \in Colors :
          /\ wire' = SendColorMsg(Deref(strm), color)
          /\ strm' = Ptr(SendColorSeq(Deref(strm)))
          /\ cmds' = (cmds \ {c}) \cup
                        {[c EXCEPT !.pc = "writing", !.color = color, !.conn = Deref(strm).conn]}
          /\ UNCHANGED <<m, store, msgs, nFrames, linkFails, storeCall, terminated,
                         exitCode, disc, cap, fn, runErr>>
    /\ UNCHANGED <<log, sends>>

\* conn.Write returns, and SendColor with it; a write entered on a closed
\* connection fails
FrameWriteEnd(c) ==
    /\ ~terminated /\ c \in cmds /\ c.kind = "frame" /\ c.pc = "writing"
    /\ \E ok \in IF c.conn = "closed" THEN {FALSE} ELSE BOOLEAN :
          /\ Finish(c, frameSentMsg(c.id, c.color, IF ok THEN "" ELSE "writing to DTLS"))
          /\ sends' = Returned(sends, ok)
    /\ UNCHANGED <<strm, wire, log>>

TickFire(c) ==
    /\ ~terminated /\ c \in cmds /\ c.kind = "tick"
    /\ Finish(c, streamTickMsg)
    /\ UNCHANGED <<strm, wire, log, sends>>

\* stopCmd: s.Close() is entered when there is a streamer
StopCloseBegin(c) ==
    /\ ~terminated /\ c \in cmds /\ c.kind = "stop" /\ c.pc = "run" /\ c.s # Nil
    /\ cmds' = (cmds \ {c}) \cup {[c EXCEPT !.pc = "closing"]}
    /\ UNCHANGED <<m, store, msgs, strm, wire, log, nFrames, linkFails, storeCall, terminated,
                   exitCode, sends, disc, cap, fn, runErr>>

StopCloseEnd(c) ==
    /\ ~terminated /\ c \in cmds /\ c.kind = "stop" /\ c.pc = "closing"
    /\ \E ok \in BOOLEAN :
          /\ cmds' = (cmds \ {c}) \cup
                        {[c EXCEPT !.pc = "deactivate", !.firstErr = IF ok THEN "" ELSE "close"]}
          /\ log' = Append(log, LogEntry("close", c, ok))
    /\ strm' = Ptr([Deref(strm) EXCEPT !.conn = "closed"])
    /\ UNCHANGED <<m, store, msgs, wire, nFrames, linkFails, storeCall, terminated,
                   exitCode, sends, disc, cap, fn, runErr>>

\* a stop action that may issue deactivate without closing the transport first
StopDeactivate_SkipsClose(c) ==
    /\ ~terminated /\ c \in cmds /\ c.kind = "stop"
    /\ c.pc = "deactivate" \/ c.pc = "run"
    /\ \E ok \in BOOLEAN :
          /\ Finish(c, stopDoneMsg(IF c.firstErr # "" THEN c.firstErr
                                   ELSE IF ok THEN "" ELSE "deactivate area"))
          /\ log' = Append(log, LogEntry("deactivate", c, ok))
    /\ UNCHANGED <<strm, wire, sends>>

StopDeactivate(c) ==
    /\ ~terminated /\ c \in cmds /\ c.kind = "stop"
    /\ c.pc = "deactivate" \/ (c.pc = "run" /\ c.s = Nil)
    /\ \E ok \in BOOLEAN :
          /\ Finish(c, stopDoneMsg(IF c.firstErr # "" THEN c.firstErr
                                   ELSE IF ok THEN "" ELSE "deactivate area"))
          /\ log' = Append(log, LogEntry("deactivate", c, ok))
    /\ UNCHANGED <<strm, wire, sends>>

----------------------------------------------------------------------------
(* The streamer on its own: a caller that sends and closes, one call at a  *)
(* time (src/stream.go lines 92-113)                                       *)

InitStreamer ==
    /\ m = newModel
    /\ store = AbsentStore
    /\ cmds = {}
    /\ msgs = {}
    /\ \E a \in 1..MaxAreas : strm = Ptr(NewStreamer(AreaOf(a).ID, AreaOf(a).ChannelIDs))
    /\ wire = <<>>
    /\ log = <<>>
    /\ nFrames = 0
    /\ linkFails = 0
    /\ storeCall = NoCall
    /\ terminated = FALSE
    /\ exitCode = -1
    /\ sends = NoSends
    /\ disc = NoDiscovery
    /\ cap = NoFactory
    /\ fn = NoCallOf
    /\ runErr = ""

\* s.SendColor(c): whether conn.Write succeeds does not change what SendColor does
StreamerSendColor(c, ok) ==
    /\ Deref(strm).conn = "open" \/ ~ok
    /\ IF ok THEN sends.ok < MaxSends ELSE sends.failed < MaxFailedSends
    /\ wire' = SendColorMsg(Deref(strm), c)
    /\ strm' = Ptr(SendColorSeq(Deref(strm)))
    /\ sends' = Returned(sends, ok)
    /\ UNCHANGED <<m, store, cmds, msgs, log, nFrames, linkFails, storeCall, terminated,
                   exitCode, disc, cap, fn, runErr>>

\* s.Close()
StreamerClose ==
    /\ Deref(strm).conn = "open"
    /\ strm' = Ptr([Deref(strm) EXCEPT !.conn = "closed"])
    /\ UNCHANGED <<m, store, cmds, msgs, wire, log, nFrames, linkFails, storeCall, terminated,
                   exitCode, sends, disc, cap, fn, runErr>>

NextStreamer ==
    \/ \E c \in Colors, ok \in BOOLEAN : StreamerSendColor(c, ok)
    \/ StreamerClose

SpecStreamer == InitStreamer /\ [][NextStreamer]_vars

----------------------------------------------------------------------------
(* The credential store on its own: a caller that saves, deletes and loads, *)
(* one call at a time, starting from any state of the directory and file    *)
(* (src/credentials.go lines 44-110)                                        *)

InitStore ==
    /\ m = newModel
    /\ store \in AnyStoreStates
    /\ cmds = {}
    /\ msgs = {}
    /\ strm = Nil
    /\ wire = <<>>
    /\ log = <<>>
    /\ nFrames = 0
    /\ linkFails = 0
    /\ storeCall = NoCall
    /\ terminated = FALSE
    /\ exitCode = -1
    /\ sends = NoSends
    /\ disc = NoDiscovery
    /\ cap = NoFactory
    /\ fn = NoCallOf
    /\ runErr = ""

\* a call of the store: the file after it, and what the call was and returned
StoreStep(st, call) ==
    /\ store' = st
    /\ storeCall' = call
    /\ UNCHANGED <<m, cmds, msgs, strm, wire, log, nFrames, linkFails, terminated, exitCode,
                   sends, disc, cap, fn, runErr>>

StoreSave(bridgeID, creds, io) ==
    LET r == SaveCredentials(store, bridgeID, creds, io)
    IN  StoreStep(r.store, StoreCall("save", bridgeID, creds, FALSE, r.err))

StoreDelete(bridgeID, io) ==
    LET r == DeleteCredentials(store, bridgeID, io)
    IN  StoreStep(r.store, StoreCall("delete", bridgeID, Creds("", ""), FALSE, r.err))

StoreLoad(bridgeID) ==
    LET r == LoadCredentials(store, bridgeID)
    IN  StoreStep(store, StoreCall("load", bridgeID, r.creds, r.found, r.err))

NextStore ==
    \/ \E id \in BridgeIDs, c \in CredValues, io \in IOOutcomes : StoreSave(id, c, io)
    \/ \E id \in BridgeIDs, io \in IOOutcomes : StoreDelete(id, io)
    \/ \E id \in BridgeIDs : StoreLoad(id)

SpecStore == InitStore /\ [][NextStore]_vars

----------------------------------------------------------------------------
(* One discovery run: scanCmd (src/unnamed/part_006 lines 116-134) calls     *)
(* DiscoverBridges (src/discovery.go lines 30-69) and collects what it       *)
(* emits. Three goroutines run: the outer one of DiscoverBridges, the inner  *)
(* one that parses and deduplicates, and scanCmd itself; the resolver        *)
(* delivers the service entries of feed, in order, while the context lives.  *)

\* TXT records of a service entry, as strings.Cut splits them
TxtSets == {<<>>, <<<<"bridgeid", "b1">>, <<"modelid", "BSB002">>>>, <<<<"bridgeid", "b2">>>>}
ServiceEntry(instance, text) == [Instance |-> instance, Text |-> text]

\* the entries the resolver has to deliver: instance i is the i-th of them
Feeds ==
    UNION {{[i \in 1..n |-> ServiceEntry(i, t[i])] : t \in [1..n -> TxtSets]} :
            n \in 0..MaxEntries}

\* the value of the last TXT record with this key, "" when there is none
RECURSIVE TxtValue(_, _)
TxtValue(text, key) ==
    IF text = <<>> THEN ""
    ELSE LET last == text[Len(text)] IN
         IF last[1] = key THEN last[2] ELSE TxtValue(SubSeq(text, 1, Len(text) - 1), key)

parseBridge(entry) ==
    [ID |-> TxtValue(entry.Text, "bridgeid"), Model |-> TxtValue(entry.Text, "modelid"),
     Name |-> entry.Instance]

\* the inner goroutine's test and update of seen
Seen(b, seen) == b.ID # "" /\ b.ID \in seen

\* an inner goroutine that never records the ids it has emitted
Mark_Forgets(b, seen) == seen

Mark(b, seen) == IF b.ID # "" THEN seen \cup {b.ID} ELSE seen

InitDiscovery ==
    /\ m = newModel
    /\ store = AbsentStore
    /\ cmds = {scanCmd}
    /\ msgs = {}
    /\ strm = Nil
    /\ wire = <<>>
    /\ log = <<>>
    /\ nFrames = 0
    /\ linkFails = 0
    /\ storeCall = NoCall
    /\ terminated = FALSE
    /\ exitCode = -1
    /\ sends = NoSends
    /\ cap = NoFactory
    /\ fn = NoCallOf
    /\ runErr = ""
    /\ \E feed \in Feeds :
          disc = [outer |-> "resolver", inner |-> "none", scan |-> "range", ctx |-> "live",
                  feed |-> feed, next |-> 1, browsing |-> FALSE, entries |-> "open",
                  pending |-> Nil, seen |-> {}, got |-> <<>>,
                  errs |-> <<>>, errsSent |-> 0, errsClosed |-> FALSE,
                  bridgesClosed |-> FALSE, result |-> Nil]

\* a step of the discovery run; nothing runs once a goroutine has panicked
DiscStep(d) ==
    /\ disc.outer # "idle" /\ disc.inner # "panic"
    /\ disc' = d
    /\ UNCHANGED <<m, store, cmds, msgs, strm, wire, log, nFrames, linkFails, storeCall,
                   terminated, exitCode, sends, cap, fn, runErr>>

\* the deadline of context.WithTimeout elapses
DiscDeadline ==
    /\ disc.ctx = "live"
    /\ DiscStep([disc EXCEPT !.ctx = "done"])

\* zeroconf.NewResolver: on an error the outer goroutine reports it and returns
OuterResolver(ok) ==
    /\ disc.outer = "resolver"
    /\ DiscStep(IF ok THEN [disc EXCEPT !.outer = "browse", !.inner = "recv"]
                ELSE [disc EXCEPT !.outer = "closeErrs",
                                  !.errs = Append(@, "creating mDNS resolver"),
                                  !.errsSent = @ + 1])

\* resolver.Browse returns
OuterBrowse(ok) ==
    /\ disc.outer = "browse"
    /\ Len(disc.errs) < 1 \/ ok
    /\ DiscStep(IF ok THEN [disc EXCEPT !.outer = "wait", !.browsing = TRUE]
                ELSE [disc EXCEPT !.outer = "wait",
                                  !.errs = Append(@, "browsing for Hue bridges"),
                                  !.errsSent = @ + 1])

\* <-ctx.Done() returns and the outer goroutine returns: its deferred calls run
OuterWake ==
    /\ disc.outer = "wait" /\ disc.ctx = "done"
    /\ DiscStep([disc EXCEPT !.outer = "closeErrs"])

\* defer close(errs)
OuterCloseErrs ==
    /\ disc.outer = "closeErrs"
    /\ DiscStep([disc EXCEPT !.outer = "closeBridges", !.errsClosed = TRUE])

\* defer close(bridges)
OuterCloseBridges ==
    /\ disc.outer = "closeBridges"
    /\ DiscStep([disc EXCEPT !.outer = "done", !.bridgesClosed = TRUE])

\* the resolver hands the next entry to the inner goroutine, which parses it
\* and either skips it or goes on to emit it
InnerReceive ==
    /\ disc.inner = "recv" /\ disc.browsing /\ disc.ctx = "live" /\ disc.entries = "open"
    /\ disc.next <= Len(disc.feed)
    /\ LET b == parseBridge(disc.feed[disc.next]) IN
       DiscStep(IF Seen(b, disc.seen) THEN [disc EXCEPT !.next = @ + 1]
                ELSE [disc EXCEPT !.next = @ + 1, !.seen = Mark(b, @),
                                  !.pending = Ptr(b), !.inner = "send"])

\* bridges <- b: scanCmd receives it, or the channel is closed and the send panics
InnerSend ==
    /\ disc.inner = "send"
    /\ DiscStep(IF disc.bridgesClosed THEN [disc EXCEPT !.inner = "panic"]
                ELSE [disc EXCEPT !.got = Append(@, Deref(disc.pending)),
                                  !.pending = Nil, !.inner = "recv"])

\* the resolver closes the entries channel after the context is done
EntriesClose ==
    /\ disc.browsing /\ disc.ctx = "done" /\ disc.entries = "open"
    /\ DiscStep([disc EXCEPT !.entries = "closed"])

\* the range over entries ends
InnerEnd ==
    /\ disc.inner = "recv" /\ disc.entries = "closed"
    /\ DiscStep([disc EXCEPT !.inner = "done"])

\* scanCmd: the range over bridgeCh ends when the channel is closed
ScanRangeEnd ==
    /\ disc.scan = "range" /\ disc.bridgesClosed
    /\ DiscStep([disc EXCEPT !.scan = "readErr"])

\* scanCmd: <-errCh yields the buffered error, or nil from the closed channel,
\* and the scan result is returned
ScanReadErr ==
    /\ disc.scan = "readErr"
    /\ disc.errs # <<>> \/ disc.errsClosed
    /\ DiscStep(IF disc.errs # <<>>
                THEN [disc EXCEPT !.scan = "done", !.errs = Tail(@),
                                  !.result = Ptr(scanDoneMsg(<<>>, Head(disc.errs)))]
                ELSE [disc EXCEPT !.scan = "done",
                                  !.result = Ptr(scanDoneMsg(disc.got, ""))])

NextDiscovery ==
    \/ DiscDeadline
    \/ \E ok \in BOOLEAN : OuterResolver(ok)
    \/ \E ok \in BOOLEAN : OuterBrowse(ok)
    \/ OuterWake
    \/ OuterCloseErrs
    \/ OuterCloseBridges
    \/ InnerReceive
    \/ InnerSend
    \/ EntriesClose
    \/ InnerEnd
    \/ ScanRangeEnd
    \/ ScanReadErr

\* every goroutine that can run is scheduled in the end, and the timer fires
SpecDiscovery == InitDiscovery /\ [][NextDiscovery]_vars /\ WF_vars(NextDiscovery)

----------------------------------------------------------------------------
(* One call of a capturer factory: newPipeWireCapturer                      *)
(* (src/capture_pipewire.go lines 37-131) or newFFmpegCapturer              *)
(* (src/unnamed/part_004 lines 23-116).  Four parties run: the factory, the *)
(* child process, the reader goroutine (readFrames) and, once the factory   *)
(* has returned a capturer, a caller of CaptureColor.  A frame is the       *)
(* number the child gave it; the shared slot c.frame is FrameParts parts,   *)
(* each holding the number of the frame its bytes were copied from (0 for   *)
(* the zero bytes of make).                                                 *)

Backends == {"portal", "ffmpeg"}

\* the places where acquirePipeWireNode gives up after the bus is connected
PortalFailures == {"SupportsUnixFDs", "CreateSession", "SelectSources", "Start",
                   "OpenPipeWireRemote", "invalid PipeWire fd"}

\* the checks of newFFmpegCapturer before the child is set up
FFmpegFailures == {"DISPLAY not set", "no active displays"}

\* make([]byte, frameSize)
ZeroFrame == [i \in 1..FrameParts |-> 0]

\* what CaptureColor returned: the error, or the bytes averageRGB went over
Captured(err, parts) == [err |-> err, parts |-> parts]

\* the state at the entry of a factory
newFactoryCall(backend) ==
    [backend |-> backend, pc |-> "hasExecutable",
     dbConn |-> "none", pwFile |-> "none", ctx |-> "none",
     child |-> "none", produced |-> 0, pipe |-> <<>>, partial |-> FALSE,
     reader |-> "none", buf |-> 0, copied |-> 0, readErr |-> "",
     mu |-> "free", frame |-> Nil, first |-> TRUE,
     ready |-> FALSE, readyCloses |-> 0, done |-> FALSE, fired |-> FALSE,
     result |-> "none", method |-> "", err |-> "", released |-> <<>>,
     caller |-> "idle", sum |-> <<>>, last |-> Nil,
     selector |-> "none", tried |-> <<>>]

\* return nil, "", err
failed(c, err) == [c EXCEPT !.pc = "returned", !.result = "error", !.err = err]

\* the failure branch of cmd.StdoutPipe() and of cmd.Start(): cancel(), and for
\* the portal backend pwFile.Close() and dbConn.Close()
setupFailed(c, err) ==
    IF c.backend = "portal"
    THEN failed([c EXCEPT !.ctx = "cancelled", !.pwFile = "closed", !.dbConn = "closed",
                          !.released = @ \o <<"cancel", "pwFile", "dbConn">>], err)
    ELSE failed([c EXCEPT !.ctx = "cancelled", !.released = @ \o <<"cancel">>], err)

\* the timeout branch of the select, a faulty variant: the factory returns
\* the error without releasing anything
timedOut_ReturnsAtOnce(c) == failed(c, "timed out waiting for first frame")

\* the timeout branch of the select: c.cancel(), then <-c.done
timedOut(c) ==
    [c EXCEPT !.ctx = "cancelled", !.pc = "waitDone", !.released = @ \o <<"cancel">>]

\* io.ReadFull filled buf, a faulty variant: the reader closes ready before
\* it has stored the frame
readFull_SignalsFirst(c) ==
    [c EXCEPT !.buf = Head(c.pipe), !.pipe = Tail(c.pipe), !.reader = "lock",
              !.ready = TRUE, !.readyCloses = @ + 1, !.first = FALSE]

\* io.ReadFull filled buf with the next complete frame of the pipe
readFull(c) ==
    [c EXCEPT !.buf = Head(c.pipe), !.pipe = Tail(c.pipe), !.reader = "lock"]

\* if first { close(c.ready); first = false }
signalled(c) ==
    IF c.first
    THEN [c EXCEPT !.ready = TRUE, !.readyCloses = @ + 1, !.first = FALSE, !.reader = "read"]
    ELSE [c EXCEPT !.reader = "read"]

InitFactory ==
    /\ m = newModel
    /\ store = AbsentStore
    /\ cmds = {}
    /\ msgs = {}
    /\ strm = Nil
    /\ wire = <<>>
    /\ log = <<>>
    /\ nFrames = 0
    /\ linkFails = 0
    /\ storeCall = NoCall
    /\ terminated = FALSE
    /\ exitCode = -1
    /\ sends = NoSends
    /\ disc = NoDiscovery
    /\ \E backend \in Backends : cap = newFactoryCall(backend)
    /\ fn = NoCallOf
    /\ runErr = ""

FactoryStep(c) ==
    /\ cap.pc # "idle"
    /\ cap' = c
    /\ UNCHANGED <<m, store, cmds, msgs, strm, wire, log, nFrames, linkFails, storeCall,
                   terminated, exitCode, sends, disc, fn, runErr>>

\* hasExecutable("gst-launch-1.0") / hasExecutable("ffmpeg")
FactoryHasExecutable(ok) ==
    /\ cap.pc = "hasExecutable"
    /\ FactoryStep(IF ~ok THEN failed(cap, "not found")
                   ELSE [cap EXCEPT !.pc = IF cap.backend = "portal"
                                           THEN "ConnectSessionBus" ELSE "DISPLAY"])

\* acquirePipeWireNode: dbus.ConnectSessionBus()
PortalConnect(ok) ==
    /\ cap.pc = "ConnectSessionBus"
    /\ FactoryStep(IF ok THEN [cap EXCEPT !.dbConn = "open", !.pc = "negotiate"]
                   ELSE failed(cap, "connecting to session bus"))

\* acquirePipeWireNode from SupportsUnixFDs on: every failure closes the
\* connection; success hands the connection and the descriptor to the factory,
\* which makes the context of the child
PortalNegotiate(outcome) ==
    /\ cap.pc = "negotiate"
    /\ FactoryStep(IF outcome = "ok"
                   THEN [cap EXCEPT !.pwFile = "open", !.ctx = "live", !.pc = "StdoutPipe"]
                   ELSE failed([cap EXCEPT !.dbConn = "closed",
                                           !.released = @ \o <<"dbConn">>], outcome))

\* newFFmpegCapturer: os.Getenv("DISPLAY"), screenSize(), context.WithCancel
FFmpegProbe(outcome) ==
    /\ cap.pc = "DISPLAY"
    /\ FactoryStep(IF outcome = "ok"
                   THEN [cap EXCEPT !.ctx = "live", !.pc = "StdoutPipe"]
                   ELSE failed(cap, outcome))

\* cmd.StdoutPipe()
FactoryStdoutPipe(ok) ==
    /\ cap.pc = "StdoutPipe"
    /\ FactoryStep(IF ok THEN [cap EXCEPT !.pc = "Start"]
                   ELSE setupFailed(cap, "stdout pipe"))

\* cmd.Start(), the capturer struct, go c.readFrames(stdout), and the entry
\* of the select with its timer
FactoryStart(ok) ==
    /\ cap.pc = "Start"
    /\ FactoryStep(IF ok THEN [cap EXCEPT !.child = "running", !.reader = "read",
                                          !.pc = "select"]
                   ELSE setupFailed(cap, "starting"))

\* time.After(5 * time.Second) fires while the factory is blocked in the
\* select: the first of the two events decides the branch
TimerFire ==
    /\ cap.pc = "select" /\ ~cap.ready /\ ~cap.fired
    /\ FactoryStep([cap EXCEPT !.fired = TRUE])

\* case <-c.ready: return c, "PipeWire" / "FFmpeg", nil
FactoryReady ==
    /\ cap.pc = "select" /\ cap.ready /\ ~cap.fired
    /\ FactoryStep([cap EXCEPT !.pc = "returned", !.result = "capturer",
                               !.method = IF cap.backend = "portal"
                                          THEN "PipeWire" ELSE "FFmpeg"])

\* case <-time.After(...): c.cancel()
FactoryTimeout ==
    /\ cap.pc = "select" /\ cap.fired
    /\ FactoryStep(timedOut(cap))

\* <-c.done
FactoryWaitDone ==
    /\ cap.pc = "waitDone" /\ cap.done
    /\ FactoryStep([cap EXCEPT !.pc = "Wait", !.released = @ \o <<"reader">>])

\* _ = c.cmd.Wait(): returns when the child has exited; the media-tool
\* factory returns its error here
FactoryWait ==
    /\ cap.pc = "Wait" /\ cap.child = "exited"
    /\ LET c == [cap EXCEPT !.child = "reaped", !.released = @ \o <<"reap">>]
       IN  FactoryStep(IF cap.backend = "portal"
                       THEN [c EXCEPT !.pc = "closePwFile"]
                       ELSE failed(c, "timed out waiting for first frame"))

\* pwFile.Close()
FactoryClosePwFile ==
    /\ cap.pc = "closePwFile"
    /\ FactoryStep([cap EXCEPT !.pwFile = "closed", !.pc = "closeConn",
                               !.released = @ \o <<"pwFile">>])

\* dbConn.Close() and the return of the error
FactoryCloseConn ==
    /\ cap.pc = "closeConn"
    /\ FactoryStep(failed([cap EXCEPT !.dbConn = "closed",
                                      !.released = @ \o <<"dbConn">>],
                          "timed out waiting for first frame"))

\* Close, a faulty variant: after c.cancel() it goes on to c.cmd.Wait()
\* without waiting for the reader
closeCalled_SkipsWait(c) ==
    [c EXCEPT !.ctx = "cancelled", !.pc = "Close.Wait", !.released = @ \o <<"cancel">>]

\* Close: c.cancel(), then <-c.done
closeCalled(c) ==
    [c EXCEPT !.ctx = "cancelled", !.pc = "Close.waitDone", !.released = @ \o <<"cancel">>]

\* the owner of the capturer calls Close
CloseCall ==
    /\ cap.pc = "returned" /\ cap.result = "capturer"
    /\ cap.backend \in Backends /\ cap.selector # "running"
    /\ FactoryStep(closeCalled(cap))

\* Close: <-c.done
CloseWaitDone ==
    /\ cap.pc = "Close.waitDone" /\ cap.done
    /\ FactoryStep([cap EXCEPT !.pc = "Close.Wait", !.released = @ \o <<"reader">>])

\* Close: c.cmd.Wait() returns when the child has exited; the media-tool
\* capturer returns its result
CloseWait ==
    /\ cap.pc = "Close.Wait" /\ cap.child = "exited"
    /\ FactoryStep([cap EXCEPT !.child = "reaped", !.released = @ \o <<"reap">>,
                               !.pc = IF cap.backend = "portal"
                                      THEN "Close.pwFile" ELSE "closed"])

\* Close: c.pwFile.Close()
ClosePwFile ==
    /\ cap.pc = "Close.pwFile"
    /\ FactoryStep([cap EXCEPT !.pwFile = "closed", !.pc = "Close.dbConn",
                               !.released = @ \o <<"pwFile">>])

\* Close: c.dbConn.Close() and the return
CloseConn ==
    /\ cap.pc = "Close.dbConn"
    /\ FactoryStep([cap EXCEPT !.dbConn = "closed", !.pc = "closed",
                               !.released = @ \o <<"dbConn">>])

\* the child writes one complete frame to its standard output
ChildWrite ==
    /\ cap.pc # "idle"
    /\ cap.child = "running" /\ cap.produced < MaxChildFrames
    /\ FactoryStep([cap EXCEPT !.produced = @ + 1, !.pipe = Append(@, cap.produced + 1)])

\* the child exits on its own, with or without part of a frame written
ChildExit(partial) ==
    /\ cap.pc # "idle"
    /\ cap.child = "running"
    /\ FactoryStep([cap EXCEPT !.child = "exited", !.partial = partial])

\* exec.CommandContext kills the child once the context is cancelled
ChildKilled(partial) ==
    /\ cap.pc # "idle"
    /\ cap.child = "running" /\ cap.ctx = "cancelled"
    /\ FactoryStep([cap EXCEPT !.child = "exited", !.partial = partial])

\* readFrames: io.ReadFull returns a complete frame
ReaderReadFull ==
    /\ cap.pc # "idle"
    /\ cap.reader = "read" /\ cap.pipe # <<>>
    /\ FactoryStep(readFull(cap))

\* readFrames: io.ReadFull returns an error at the end of the pipe (io.EOF,
\* or io.ErrUnexpectedEOF after part of a frame), the reader returns and
\* the deferred close(c.done) runs
ReaderReadError ==
    /\ cap.pc # "idle"
    /\ cap.reader = "read" /\ cap.pipe = <<>> /\ cap.child \in {"exited", "reaped"}
    /\ FactoryStep([cap EXCEPT !.reader = "done", !.done = TRUE,
                               !.readErr = IF cap.partial THEN "unexpected EOF" ELSE "EOF"])

\* readFrames: c.mu.Lock(); if c.frame == nil { c.frame = make(...) }
ReaderLock ==
    /\ cap.pc # "idle"
    /\ cap.reader = "lock" /\ cap.mu = "free"
    /\ FactoryStep([cap EXCEPT !.mu = "reader", !.reader = "copy", !.copied = 0,
                               !.frame = IF @ = Nil THEN ZeroFrame ELSE @])

\* readFrames: copy(c.frame, buf), one part at a time
ReaderCopy ==
    /\ cap.pc # "idle"
    /\ cap.reader = "copy" /\ cap.copied < FrameParts
    /\ FactoryStep([cap EXCEPT !.frame[cap.copied + 1] = cap.buf, !.copied = @ + 1])

\* readFrames: c.mu.Unlock()
ReaderUnlock ==
    /\ cap.pc # "idle"
    /\ cap.reader = "copy" /\ cap.copied = FrameParts
    /\ FactoryStep([cap EXCEPT !.mu = "free", !.reader = "signal"])

\* readFrames: if first { close(c.ready); first = false }
ReaderSignal ==
    /\ cap.pc # "idle"
    /\ cap.reader = "signal"
    /\ FactoryStep(signalled(cap))

\* CaptureColor on the capturer the factory returned: c.mu.Lock(); f := c.frame;
\* c.mu.Unlock(); if f == nil { return error }
CaptureColorCall ==
    /\ cap.pc = "returned" /\ cap.result = "capturer"
    /\ cap.backend \in Backends /\ cap.selector # "running"
    /\ cap.caller = "idle" /\ cap.mu = "free"
    /\ FactoryStep(IF cap.frame = Nil
                   THEN [cap EXCEPT !.last = Ptr(Captured("no frame captured yet", <<>>))]
                   ELSE [cap EXCEPT !.caller = "average", !.sum = <<>>])

\* CaptureColor: averageRGB(f, ...) goes over the bytes of the slot, one part
\* at a time, and returns after the last
CaptureColorAverage ==
    /\ cap.pc # "idle"
    /\ cap.caller = "average"
    /\ LET sum == Append(cap.sum, cap.frame[Len(cap.sum) + 1])
       IN  FactoryStep(IF Len(sum) = FrameParts
                       THEN [cap EXCEPT !.caller = "idle", !.sum = <<>>,
                                        !.last = Ptr(Captured("", sum))]
                       ELSE [cap EXCEPT !.sum = sum])

\* the steps of the program: the factory, the timer, the reader, the kill and
\* a CaptureColor call under way
FactoryProgram ==
    \/ \E ok \in BOOLEAN : FactoryHasExecutable(ok)
    \/ \E ok \in BOOLEAN : PortalConnect(ok)
    \/ \E outcome \in {"ok"} \cup PortalFailures : PortalNegotiate(outcome)
    \/ \E outcome \in {"ok"} \cup FFmpegFailures : FFmpegProbe(outcome)
    \/ \E ok \in BOOLEAN : FactoryStdoutPipe(ok)
    \/ \E ok \in BOOLEAN : FactoryStart(ok)
    \/ TimerFire
    \/ FactoryReady
    \/ FactoryTimeout
    \/ FactoryWaitDone
    \/ FactoryWait
    \/ FactoryClosePwFile
    \/ FactoryCloseConn
    \/ \E partial \in BOOLEAN : ChildKilled(partial)
    \/ ReaderReadFull
    \/ ReaderReadError
    \/ ReaderLock
    \/ ReaderCopy
    \/ ReaderUnlock
    \/ ReaderSignal
    \/ CaptureColorAverage
    \/ CloseWaitDone
    \/ CloseWait
    \/ ClosePwFile
    \/ CloseConn

\* the steps nothing obliges to happen: the child writes or exits, the owner
\* of the capturer calls CaptureColor
FactoryEnvironment ==
    \/ ChildWrite
    \/ \E partial \in BOOLEAN : ChildExit(partial)
    \/ CaptureColorCall
    \/ CloseCall

NextFactory ==
    \/ FactoryProgram
    \/ FactoryEnvironment

\* every goroutine that can run is scheduled in the end, the timer fires and
\* the kill reaches the child; the child itself may hang for ever
SpecFactory == InitFactory /\ [][NextFactory]_vars /\ WF_vars(FactoryProgram)

----------------------------------------------------------------------------
(* The selector NewCapturer (src/unnamed/part_005 lines 36-48): it calls the *)
(* portal factory, then the media-tool factory, then takes x11Capturer{}.    *)
(* cap.tried lists the factories that have returned an error, each with its  *)
(* error.                                                                    *)

Tried(backend, err) == [backend |-> backend, err |-> err]

\* NewCapturer after a factory has returned, a faulty variant: the screen-grab
\* capturer is taken as soon as the portal factory has failed
NewCapturer_SkipsFFmpeg(c) ==
    IF c.result = "capturer"
    THEN [c EXCEPT !.selector = "returned"]
    ELSE [newFactoryCall("x11") EXCEPT
             !.pc = "returned", !.result = "capturer", !.method = "X11",
             !.selector = "returned",
             !.tried = Append(c.tried, Tried(c.backend, c.err))]

\* NewCapturer after the factory call c has returned: return c with its label
\* if err == nil, else call newFFmpegCapturer after newPipeWireCapturer, and
\* return x11Capturer{}, "X11", nil after newFFmpegCapturer
NewCapturer(c) ==
    IF c.result = "capturer"
    THEN [c EXCEPT !.selector = "returned"]
    ELSE IF c.backend = "portal"
    THEN [newFactoryCall("ffmpeg") EXCEPT
             !.selector = "running",
             !.tried = Append(c.tried, Tried(c.backend, c.err))]
    ELSE [newFactoryCall("x11") EXCEPT
             !.pc = "returned", !.result = "capturer", !.method = "X11",
             !.selector = "returned",
             !.tried = Append(c.tried, Tried(c.backend, c.err))]

InitSelector ==
    /\ m = newModel
    /\ store = AbsentStore
    /\ cmds = {}
    /\ msgs = {}
    /\ strm = Nil
    /\ wire = <<>>
    /\ log = <<>>
    /\ nFrames = 0
    /\ linkFails = 0
    /\ storeCall = NoCall
    /\ terminated = FALSE
    /\ exitCode = -1
    /\ sends = NoSends
    /\ disc = NoDiscovery
    /\ cap = [newFactoryCall("portal") EXCEPT !.selector = "running"]
    /\ fn = NoCallOf
    /\ runErr = ""

\* the factory NewCapturer called has returned
SelectorStep ==
    /\ cap.pc = "returned" /\ cap.selector = "running"
    /\ FactoryStep(NewCapturer(cap))

NextSelector ==
    \/ NextFactory
    \/ SelectorStep

SpecSelector ==
    InitSelector /\ [][NextSelector]_vars /\ WF_vars(FactoryProgram \/ SelectorStep)

----------------------------------------------------------------------------
(* Functions examined on their own: fn holds the name and the arguments of  *)
(* one call, and the result once the call has returned.                      *)

\* every other part of the program is idle
OnlyFn ==
    /\ m = newModel
    /\ store = AbsentStore
    /\ cmds = {}
    /\ msgs = {}
    /\ strm = Nil
    /\ wire = <<>>
    /\ log = <<>>
    /\ nFrames = 0
    /\ linkFails = 0
    /\ storeCall = NoCall
    /\ terminated = FALSE
    /\ exitCode = -1
    /\ sends = NoSends
    /\ disc = NoDiscovery
    /\ cap = NoFactory
    /\ runErr = ""

\* a step of the call
FnStep(f) ==
    /\ fn.name # "none" /\ ~fn.done
    /\ fn' = f
    /\ UNCHANGED <<m, store, cmds, msgs, strm, wire, log, nFrames, linkFails, storeCall,
                   terminated, exitCode, sends, disc, cap, runErr>>

----------------------------------------------------------------------------
(* BuildHueStreamMessage (src/stream.go lines 116-168) on its own.  The area *)
(* id is a string of any length, the channel ids and the sequence are uint8, *)
(* the color is three uint8.                                                 *)

\* an area id of n bytes, none of them 0
AreaIDOfLen(n) == [i \in 1..n |-> 48 + (i % 10)]
AreaIDInputs == {AreaIDOfLen(n) : n \in {0, 1, 35, 36} \cup (37..MaxAreaIDLen)}

ChannelIDInputs == {0, 7, 255}
ChannelListInputs == UNION {[1..k -> ChannelIDInputs] : k \in 0..MaxChannels}

\* 256 colors in which every component takes every value
ColorOf(v) == RGB(v, 255 - v, (v * 3) % 256)

\* every sequence number with the two colors of Colors, and every color of
\* ColorOf with the first and the last sequence number
SeqColorInputs ==
    {[seq |-> seq, c |-> c] : seq \in 0..255, c \in Colors}
    \cup {[seq |-> seq, c |-> ColorOf(v)] : seq \in {0, 255}, v \in 0..255}

InitFramer ==
    /\ OnlyFn
    /\ \E a \in AreaIDInputs, ch \in ChannelListInputs, sc \in SeqColorInputs :
          fn = [name |-> "BuildHueStreamMessage",
                in |-> [areaID |-> a, channelIDs |-> ch, c |-> sc.c, seq |-> sc.seq],
                done |-> FALSE, msg |-> <<>>]

CallBuildHueStreamMessage ==
    /\ fn.name = "BuildHueStreamMessage"
    /\ FnStep([fn EXCEPT !.done = TRUE,
                           !.msg = BuildHueStreamMessage(fn.in.areaID, fn.in.channelIDs,
                                                         fn.in.c, fn.in.seq)])

NextFramer == CallBuildHueStreamMessage

SpecFramer == InitFramer /\ [][NextFramer]_vars

----------------------------------------------------------------------------
(* averageRGB (src/unnamed/part_005 lines 51-68) on its own: a packed R,G,B  *)
(* buffer of 3 * pixels bytes.  Byte i of the buffer is element i + 1.       *)

\* rSum, gSum or bSum after the loop: the sum of buf[i*3 + k] for i < pixels
\* (a uint64, which 255 times the length of a buffer in memory cannot exceed)
RECURSIVE ComponentSum(_, _, _)
ComponentSum(buf, pixels, k) ==
    IF pixels = 0 THEN 0
    ELSE ComponentSum(buf, pixels - 1, k) + buf[(pixels - 1) * 3 + k + 1]

\* a faulty variant that rounds to the nearest value
averageRGB_Rounds(buf, pixels) ==
    IF pixels = 0 THEN RGB(0, 0, 0)
    ELSE RGB(((ComponentSum(buf, pixels, 0) + pixels \div 2) \div pixels) % 256,
             ((ComponentSum(buf, pixels, 1) + pixels \div 2) \div pixels) % 256,
             ((ComponentSum(buf, pixels, 2) + pixels \div 2) \div pixels) % 256)

averageRGB(buf, pixels) ==
    IF pixels = 0 THEN RGB(0, 0, 0)
    ELSE RGB((ComponentSum(buf, pixels, 0) \div pixels) % 256,
             (ComponentSum(buf, pixels, 1) \div pixels) % 256,
             (ComponentSum(buf, pixels, 2) \div pixels) % 256)

ByteInputs == {0, 200, 255}

\* every buffer of up to MaxPixels pixels over ByteInputs, and the buffers
\* filled with one color of ColorOf
PackedInputs ==
    (UNION {[1..(3 * n) -> ByteInputs] : n \in 0..MaxPixels})
    \cup {[i \in 1..(3 * n) |-> CASE i % 3 = 1 -> ColorOf(v).R
                                  [] i % 3 = 2 -> ColorOf(v).G
                                  [] i % 3 = 0 -> ColorOf(v).B] :
             n \in 1..MaxPixels, v \in {1, 100, 254}}

InitAverageRGB ==
    /\ OnlyFn
    /\ \E buf \in PackedInputs :
          fn = [name |-> "averageRGB", buf |-> buf, pixels |-> Len(buf) \div 3,
                done |-> FALSE, out |-> RGB(0, 0, 0)]

CallAverageRGB ==
    /\ fn.name = "averageRGB"
    /\ FnStep([fn EXCEPT !.done = TRUE, !.out = averageRGB(fn.buf, fn.pixels)])

NextAverageRGB == CallAverageRGB

SpecAverageRGB == InitAverageRGB /\ [][NextAverageRGB]_vars

----------------------------------------------------------------------------
(* AverageColor (src/screen.go lines 35-67) on its own, one iteration of its *)
(* loop at a time.  The surface is an image.RGBA: w, h, Stride and Pix, whose *)
(* byte at an offset is given by PixAt; the bytes of a row beyond 4 * w       *)
(* belong to the image the surface was cut from.                              *)

SampleTarget == 10000

Patterns == {"uniform", "mixed"}

\* the color and the alpha of the pixel in a row and a column of the surface
PixelColor(pattern, row, col) ==
    IF pattern = "uniform" THEN RGB(200, 100, 50)
    ELSE RGB((row * 7 + col) % 256, (row + col * 3) % 256, (row * col) % 256)
PixelAlpha(pattern, row, col) ==
    IF pattern = "uniform" THEN 255 ELSE (row + col * 5) % 256

\* img.Pix[off]
PixAt(img, off) ==
    LET row == off \div img.stride
        within == off % img.stride
        col == within \div 4
        c == PixelColor(img.pattern, row, col)
    IN  IF within >= 4 * img.w THEN 255 - PixelAlpha(img.pattern, row, 0)
        ELSE CASE within % 4 = 0 -> c.R
               [] within % 4 = 1 -> c.G
               [] within % 4 = 2 -> c.B
               [] within % 4 = 3 -> PixelAlpha(img.pattern, row, col)

\* len(img.Pix): the rows before the last with their stride, and the last row
PixLen(img) == IF img.w * img.h = 0 THEN 0 ELSE (img.h - 1) * img.stride + 4 * img.w

SurfaceSizes ==
    {<<0, 0>>, <<0, 3>>, <<3, 0>>, <<1, 1>>, <<2, 1>>, <<3, 2>>,
     <<125, 100>>, <<200, 100>>, <<199, 151>>, <<640, 480>>}

Surfaces ==
    {[w |-> s[1], h |-> s[2], stride |-> 4 * s[1] + pad, pattern |-> p] :
        s \in SurfaceSizes, pad \in 0..MaxStridePad, p \in Patterns}

\* a faulty variant that takes the rows to be 4 * w bytes apart
pixOffset_IgnoresStride(img, i) == (i \div img.w) * (4 * img.w) + (i % img.w) * 4

\* off := (i/w)*stride + (i%w)*4
pixOffset(img, i) == (i \div img.w) * img.stride + (i % img.w) * 4

InitAverageColor ==
    /\ OnlyFn
    /\ \E img \in Surfaces :
          fn = [name |-> "AverageColor", img |-> img, pc |-> "entry", done |-> FALSE,
                pixels |-> 0, step |-> 0, i |-> 0, off |-> -1,
                rSum |-> 0, gSum |-> 0, bSum |-> 0, count |-> 0, out |-> RGB(0, 0, 0)]

\* pixels := w * h; the return of RGB{} for an empty surface; step
AverageColorEntry ==
    /\ fn.name = "AverageColor" /\ fn.pc = "entry"
    /\ LET pixels == fn.img.w * fn.img.h
           step == pixels \div SampleTarget
       IN  FnStep(IF pixels = 0
                  THEN [fn EXCEPT !.pc = "done", !.done = TRUE]
                  ELSE [fn EXCEPT !.pc = "loop", !.pixels = pixels,
                                  !.step = IF step < 1 THEN 1 ELSE step])

\* one iteration of the loop; an offset outside Pix is a run-time panic
AverageColorLoop ==
    /\ fn.name = "AverageColor" /\ fn.pc = "loop" /\ fn.i < fn.pixels
    /\ LET off == pixOffset(fn.img, fn.i)
       IN  FnStep(IF off < 0 \/ off + 2 >= PixLen(fn.img)
                  THEN [fn EXCEPT !.pc = "panic", !.done = TRUE, !.off = off]
                  ELSE [fn EXCEPT !.off = off,
                                  !.rSum = @ + PixAt(fn.img, off),
                                  !.gSum = @ + PixAt(fn.img, off + 1),
                                  !.bSum = @ + PixAt(fn.img, off + 2),
                                  !.count = @ + 1,
                                  !.i = @ + fn.step])

\* the return after the loop; a division by a zero count is a run-time panic
AverageColorReturn ==
    /\ fn.name = "AverageColor" /\ fn.pc = "loop" /\ fn.i >= fn.pixels
    /\ FnStep(IF fn.count = 0
              THEN [fn EXCEPT !.pc = "panic", !.done = TRUE]
              ELSE [fn EXCEPT !.pc = "done", !.done = TRUE,
                              !.out = RGB((fn.rSum \div fn.count) % 256,
                                          (fn.gSum \div fn.count) % 256,
                                          (fn.bSum \div fn.count) % 256)])

NextAverageColor ==
    \/ AverageColorEntry
    \/ AverageColorLoop
    \/ AverageColorReturn

SpecAverageColor == InitAverageColor /\ [][NextAverageColor]_vars

----------------------------------------------------------------------------
(* The program from its start up to the activate request: discovery,       *)
(* credentials, pairing, area and delay selection                          *)

NextSetup ==
    \/ \E k \in Keys : KeyPress(k)
    \/ \E msg \in msgs, io \in IOOutcomes : Handle(msg, io)
    \/ \E c \in cmds : ScanRun(c)
    \/ \E c \in cmds : PairRun(c)
    \/ \E c \in cmds : FetchRun(c)

SpecSetup == Init /\ [][NextSetup]_vars

----------------------------------------------------------------------------
(* The session from the activate request on.  It starts in states the      *)
(* setup reaches by Enter in InputDelay: bridge 1 chosen automatically or  *)
(* bridge 2 chosen from the list, stored credentials loaded, area 1 chosen *)
(* automatically or area 2 chosen from the list, the default delay.        *)

SessionBridges == {<<>>, [i \in 1..2 |-> BridgeOf(i)]}
SessionAreas == {<<>>, [i \in 1..2 |-> AreaOf(i)]}

SessionModel(bridges, areas) ==
    LET b == IF bridges = <<>> THEN BridgeOf(1) ELSE bridges[2]
        a == IF areas = <<>> THEN AreaOf(1) ELSE areas[2]
    IN  [newModel EXCEPT !.state = stateActivating,
                         !.bridges = bridges, !.cursor = Len(bridges) \div 2,
                         !.selected = Ptr(b),
                         !.username = StoredCreds.Username,
                         !.clientkey = StoredCreds.Clientkey,
                         !.areas = areas, !.areaCursor = Len(areas) \div 2,
                         !.selectedArea = Ptr(a),
                         !.delayInput = <<1, 0, 0>>,
                         !.captureDelay = DelayOf(Int64Of(100))]

InitSession ==
    /\ \E bridges \in SessionBridges, areas \in SessionAreas :
          /\ m = SessionModel(bridges, areas)
          /\ store = StoreFile(DirMode, "ok", FileMode,
                               [NoEntries EXCEPT ![Deref(m.selected).ID] = Ptr(StoredCreds)])
          /\ cmds = {activateCmd(Deref(m.selected).IP, m.username, Deref(m.selectedArea).ID)}
    /\ msgs = {}
    /\ strm = Nil
    /\ wire = <<>>
    /\ log = <<>>
    /\ nFrames = 0
    /\ linkFails = 0
    /\ storeCall = NoCall
    /\ terminated = FALSE
    /\ exitCode = -1
    /\ sends = NoSends
    /\ disc = NoDiscovery
    /\ cap = NoFactory
    /\ fn = NoCallOf
    /\ runErr = ""

NextSession ==
    \/ \E k \in Keys : KeyPress(k)
    \/ \E msg \in msgs, io \in IOOutcomes : Handle(msg, io)
    \/ \E c \in cmds : ActivateRun(c)
    \/ \E c \in cmds : ConnectRun(c)
    \/ \E c \in cmds : FrameStart(c)
    \/ \E c \in cmds : FrameWriteEnd(c)
    \/ \E c \in cmds : TickFire(c)
    \/ \E c \in cmds : StopCloseBegin(c)
    \/ \E c \in cmds : StopCloseEnd(c)
    \/ \E c \in cmds : StopDeactivate(c)

SpecSession == InitSession /\ [][NextSession]_vars

\* every state the session starts in is a state of the whole program
SessionStartReached ==
    \E bridges \in SessionBridges, areas \in SessionAreas :
        /\ m = SessionModel(bridges, areas)
        /\ cmds = {activateCmd(Deref(m.selected).IP, m.username, Deref(m.selectedArea).ID)}
        /\ msgs = {} /\ log = <<>> /\ strm = Nil /\ ~terminated

----------------------------------------------------------------------------
(* The whole program *)

Next ==
    \/ \E k \in Keys : KeyPress(k)
    \/ \E msg \in msgs, io \in IOOutcomes : Handle(msg, io)
    \/ \E c \in cmds : ScanRun(c)
    \/ \E c \in cmds : PairRun(c)
    \/ \E c \in cmds : FetchRun(c)
    \/ \E c \in cmds : ActivateRun(c)
    \/ \E c \in cmds : ConnectRun(c)
    \/ \E c \in cmds : FrameStart(c)
    \/ \E c \in cmds : FrameWriteEnd(c)
    \/ \E c \in cmds : TickFire(c)
    \/ \E c \in cmds : StopCloseBegin(c)
    \/ \E c \in cmds : StopCloseEnd(c)
    \/ \E c \in cmds : StopDeactivate(c)

Spec == Init /\ [][Next]_vars

----------------------------------------------------------------------------
(* PairBridge (src/hue.go lines 28-60) on its own, and what Update does with *)
(* its result in PairingWait (src/unnamed/part_006 lines 254-273).           *)

\* an element of the array: "success" and "error" each present or not
pairResponse(success, error) == [Success |-> success, Error |-> error]

PairElements ==
    {pairResponse(su, er) :
        su \in {Nil, Ptr(Creds("U1", "K1")), Ptr(Creds("U1", ""))},
        er \in {Nil} \cup {Ptr([Type |-> t, Description |-> d]) :
                              t \in {0, 7, 101}, d \in {"", "link button not pressed"}}}

PairInputs ==
    {[http |-> "fail", result |-> <<>>]}
    \cup {[http |-> "ok", result |-> r] :
            r \in UNION {[1..n -> PairElements] : n \in 0..MaxPairElements}}

InitPair ==
    /\ OnlyFn
    /\ \E reply \in PairInputs :
          fn = [name |-> "PairBridge", reply |-> reply, pc |-> "call", done |-> FALSE,
                out |-> [username |-> "", clientkey |-> "", err |-> ""],
                m |-> [newModel EXCEPT !.state = statePairingWait,
                                       !.selected = Ptr(BridgeOf(1))],
                quit |-> FALSE]

\* pairCmd: PairBridge returns
CallPairBridge ==
    /\ fn.name = "PairBridge" /\ fn.pc = "call"
    /\ FnStep([fn EXCEPT !.pc = "returned", !.out = PairBridge(fn.reply)])

\* Update handles the pairResultMsg that pairCmd made of the result
PairResultHandled ==
    /\ fn.name = "PairBridge" /\ fn.pc = "returned"
    /\ LET r == Update(fn.m, AbsentStore,
                       pairResultMsg(fn.out.username, fn.out.clientkey, fn.out.err), "ok")
       IN  FnStep([fn EXCEPT !.pc = "handled", !.done = TRUE, !.m = r.m, !.quit = r.quit])

NextPair ==
    \/ CallPairBridge
    \/ PairResultHandled

SpecPair == InitPair /\ [][NextPair]_vars

----------------------------------------------------------------------------
(* The first two steps of the program: scanCmd (src/unnamed/part_006 lines *)
(* 116-134) returns its message, and Update handles it in Scanning (lines  *)
(* 225-252).  The bridges the scan collected and the error it read from    *)
(* the error channel are kept beside the message made of them.             *)

\* what DiscoverBridges can hand to scanCmd: the resolver fails before any
\* bridge is found; Browse can fail after bridges were forwarded
ScanErrors == {"", "creating mDNS resolver", "browsing for Hue bridges"}

InitScan ==
    /\ OnlyFn
    /\ \E found \in ScanLists, err \in ScanErrors, st \in AnyStoreStates :
          /\ err = "creating mDNS resolver" => found = <<>>
          /\ fn = [name |-> "scanCmd", found |-> found, err |-> err, pc |-> "scan",
                   done |-> FALSE, msg |-> scanDoneMsg(<<>>, ""), m |-> newModel,
                   store |-> st, cmds |-> {}, quit |-> FALSE]

\* scanCmd returns
ScanCmdReturns ==
    /\ fn.name = "scanCmd" /\ fn.pc = "scan"
    /\ FnStep([fn EXCEPT !.pc = "returned", !.msg = scanCmdResult(fn.found, fn.err)])

\* Update handles the scanDoneMsg
ScanDoneHandled ==
    /\ fn.name = "scanCmd" /\ fn.pc = "returned"
    /\ LET r == Update(fn.m, fn.store, fn.msg, "ok")
       IN  FnStep([fn EXCEPT !.pc = "handled", !.done = TRUE, !.m = r.m,
                             !.store = r.store, !.cmds = r.cmds, !.quit = r.quit])

NextScan ==
    \/ ScanCmdReturns
    \/ ScanDoneHandled

SpecScan == InitScan /\ [][NextScan]_vars

----------------------------------------------------------------------------
(* Enter in InputDelay (src/unnamed/part_006 lines 397-414) on its own:    *)
(* every digit string of up to MaxDelayLen characters, and longer strings  *)
(* around the limits of int and of time.Duration.  The user reaches each   *)
(* of them with backspace and the digit keys.                              *)

DelayStrings ==
    UNION {[1..n -> 0..9] : n \in 0..MaxDelayLen}

LongDelayStrings ==
    { <<9,2,2,3,3,7,2,0,3,6,8,5,4>>,                       \* largest that fits a Duration
      <<9,2,2,3,3,7,2,0,3,6,8,5,5>>,                       \* one more
      <<1,8,4,4,6,7,4,4,0,7,3,7,1,0>>,                     \* beyond 2^64 nanoseconds
      <<2,8,8,2,3,0,3,7,6,1,5,1,7,1,1,7,4,4>>,             \* 2^58
      <<9,2,2,3,3,7,2,0,3,6,8,5,4,7,7,5,8,0,7>>,           \* the largest int
      <<9,2,2,3,3,7,2,0,3,6,8,5,4,7,7,5,8,0,8>>,           \* one more
      <<9,9,9,9,9,9,9,9,9,9,9,9,9,9,9,9,9,9,9,9>>,
      <<0,0,0,0,0,0,0,0,0,0,0,0,0,0,0,0,0,0,0,0,1,0,0>> }

InitDelay ==
    /\ OnlyFn
    /\ \E ds \in DelayStrings \cup LongDelayStrings :
          fn = [name |-> "delay", done |-> FALSE, input |-> ds,
                m |-> [SessionModel(<<>>, <<>>) EXCEPT !.state = stateInputDelay,
                                                      !.delayInput = ds,
                                                      !.captureDelay = Zero64],
                cmds |-> {}, quit |-> FALSE]

\* the user presses Enter
ConfirmDelay ==
    /\ fn.name = "delay"
    /\ LET r == Update(fn.m, AbsentStore, KeyMsg("enter"), "ok")
       IN  FnStep([fn EXCEPT !.done = TRUE, !.m = r.m, !.cmds = r.cmds, !.quit = r.quit])

NextDelay == ConfirmDelay

SpecDelay == InitDelay /\ [][NextDelay]_vars

----------------------------------------------------------------------------
(* The portal negotiation acquirePipeWireNode (src/capture_pipewire.go     *)
(* lines 145-254) with subscribeSignal and waitForResponse (lines 256-297) *)
(* and the spawn of the child by newPipeWireCapturer (lines 42-73).        *)
(* Request path k is the path of the k-th request.  conn.Signal(ch) hands  *)
(* every signal the connection receives to ch, whatever its path; the      *)
(* AddMatch rule of a path makes the bus route the Response signals of     *)
(* that path to the connection, and is never removed.  The result of the   *)
(* AddMatch call is discarded by the code; the call is taken to succeed.   *)

PortalMethods == <<"CreateSession", "SelectSources", "Start", "OpenPipeWireRemote">>
RequestSteps == 1..3

\* the field of the results a step needs: session_handle, none, streams
NeededField(step) ==
    CASE step = 1 -> "session_handle" [] step = 2 -> "" [] step = 3 -> "streams"

\* a Response signal: its path, the form of its body ("short": fewer than two
\* elements or a code that is no uint32, "untyped": results that are no map,
\* "ok"), its code, and whether the results hold the field the step needs
PortalSignal(path, form, code, field) ==
    [path |-> path, form |-> form, code |-> code, field |-> field]

PortalSignals ==
    {PortalSignal(p, "ok", c, f) : p \in RequestSteps, c \in {0, 1}, f \in BOOLEAN}
    \cup {PortalSignal(p, form, 0, FALSE) : p \in RequestSteps, form \in {"short", "untyped"}}

\* conn.Close() and return nil, 0, nil, err
acquireFailed(f, err) ==
    [f EXCEPT !.conn = "closed", !.pc = "returned", !.result = "error", !.err = err,
              !.done = TRUE]

\* waitForResponse took sig from the channel, a faulty variant: the results
\* are not looked at
afterResponse_IgnoresResults(f, sig) ==
    IF sig.form = "short" THEN [f EXCEPT !.queue[f.step] = Tail(@)]
    ELSE IF sig.code # 0 THEN acquireFailed(f, "portal request denied")
    ELSE IF sig.form = "untyped" THEN acquireFailed(f, "unexpected response type")
    ELSE [f EXCEPT !.queue[f.step] = Tail(@),
                   !.taken = Append(@, [step |-> f.step, sig |-> sig]),
                   !.step = IF f.step < 3 THEN @ + 1 ELSE @,
                   !.pc = IF f.step < 3 THEN "subscribe" ELSE "OpenPipeWireRemote"]

\* waitForResponse took sig from the channel: a body of fewer than two
\* elements is skipped, a non-zero code and results that are no map are
\* errors; then the caller looks for the field it needs and goes on to the
\* next step
afterResponse(f, sig) ==
    IF sig.form = "short" THEN [f EXCEPT !.queue[f.step] = Tail(@)]
    ELSE IF sig.code # 0 THEN acquireFailed(f, "portal request denied")
    ELSE IF sig.form = "untyped" THEN acquireFailed(f, "unexpected response type")
    ELSE IF NeededField(f.step) # "" /\ ~sig.field
    THEN acquireFailed(f, "no " \o NeededField(f.step) \o " in response")
    ELSE [f EXCEPT !.queue[f.step] = Tail(@),
                   !.taken = Append(@, [step |-> f.step, sig |-> sig]),
                   !.step = IF f.step < 3 THEN @ + 1 ELSE @,
                   !.pc = IF f.step < 3 THEN "subscribe" ELSE "OpenPipeWireRemote"]

\* the bus delivers sig: to the connection when a rule matches its path, and
\* from there to every channel registered (those of the steps already over
\* are never read again)
delivered(f, sig) ==
    IF sig.path \notin f.rules THEN f
    ELSE [f EXCEPT !.queue = [k \in RequestSteps |->
                                 IF k \in f.registered /\ k >= f.step
                                 THEN Append(f.queue[k], sig) ELSE f.queue[k]]]

InitPortal ==
    /\ OnlyFn
    /\ fn = [name |-> "acquirePipeWireNode", done |-> FALSE, pc |-> "ConnectSessionBus",
             step |-> 1, conn |-> "none", rules |-> {}, registered |-> {},
             queue |-> [k \in RequestSteps |-> <<>>], calls |-> <<>>,
             sent |-> <<>>, repeats |-> 0, taken |-> <<>>,
             result |-> "none", err |-> "", pwFile |-> "none", child |-> "none"]

PortalStep(f) == fn.name = "acquirePipeWireNode" /\ FnStep(f)

\* dbus.ConnectSessionBus()
AcquireConnect(ok) ==
    /\ fn.pc = "ConnectSessionBus"
    /\ PortalStep(IF ok THEN [fn EXCEPT !.conn = "open", !.pc = "SupportsUnixFDs"]
                  ELSE [fn EXCEPT !.pc = "returned", !.result = "error", !.done = TRUE,
                                  !.err = "connecting to session bus"])

\* conn.SupportsUnixFDs()
AcquireSupportsUnixFDs(ok) ==
    /\ fn.pc = "SupportsUnixFDs"
    /\ PortalStep(IF ok THEN [fn EXCEPT !.pc = "subscribe"]
                  ELSE acquireFailed(fn, "no Unix FD passing"))

\* subscribeSignal(conn, reqPath): conn.Signal(ch), then AddMatch for the path
AcquireSubscribe ==
    /\ fn.pc = "subscribe"
    /\ PortalStep([fn EXCEPT !.registered = @ \cup {fn.step}, !.rules = @ \cup {fn.step},
                             !.pc = "call"])

\* portal.Call(CreateSession / SelectSources / Start)
AcquireCall(ok) ==
    /\ fn.pc = "call"
    /\ PortalStep(IF ok THEN [fn EXCEPT !.calls = Append(@, PortalMethods[fn.step]),
                                        !.pc = "wait"]
                  ELSE acquireFailed(fn, PortalMethods[fn.step]))

\* the portal emits the Response of a request it has received and not answered
PortalRespond(sig) ==
    /\ sig.path <= Len(fn.calls)
    /\ \A i \in 1..Len(fn.sent) : fn.sent[i].path # sig.path
    /\ PortalStep(delivered([fn EXCEPT !.sent = Append(@, sig)], sig))

\* a Response emitted before reaches the connection once more
PortalRepeat(i) ==
    /\ i \in 1..Len(fn.sent) /\ fn.repeats < MaxRepeats
    /\ PortalStep(delivered([fn EXCEPT !.repeats = @ + 1], fn.sent[i]))

\* waitForResponse: case sig := <-ch
AcquireTake ==
    /\ fn.pc = "wait" /\ fn.queue[fn.step] # <<>>
    /\ PortalStep(afterResponse(fn, Head(fn.queue[fn.step])))

\* waitForResponse: case <-ctx.Done()
AcquireTimeout ==
    /\ fn.pc = "wait"
    /\ PortalStep(acquireFailed(fn, "timed out waiting for portal response"))

\* portal.Call(OpenPipeWireRemote).Store(&pwFd)
AcquireOpenRemote(ok) ==
    /\ fn.pc = "OpenPipeWireRemote"
    /\ PortalStep(IF ok THEN [fn EXCEPT !.calls = Append(@, PortalMethods[4]),
                                        !.pc = "NewFile"]
                  ELSE acquireFailed(fn, PortalMethods[4]))

\* os.NewFile and the return to newPipeWireCapturer
AcquireNewFile(ok) ==
    /\ fn.pc = "NewFile"
    /\ PortalStep(IF ok THEN [fn EXCEPT !.pwFile = "open", !.pc = "Start", !.result = "ok"]
                  ELSE acquireFailed(fn, "invalid PipeWire fd"))

\* newPipeWireCapturer: cmd.StdoutPipe() and cmd.Start(); a failure closes
\* the descriptor and the connection
PortalSpawn(ok) ==
    /\ fn.pc = "Start"
    /\ PortalStep(IF ok THEN [fn EXCEPT !.child = "running", !.pc = "select", !.done = TRUE]
                  ELSE [acquireFailed(fn, "starting gstreamer") EXCEPT !.pwFile = "closed"])

NextPortal ==
    \/ \E ok \in BOOLEAN : AcquireConnect(ok)
    \/ \E ok \in BOOLEAN : AcquireSupportsUnixFDs(ok)
    \/ AcquireSubscribe
    \/ \E ok \in BOOLEAN : AcquireCall(ok)
    \/ \E sig \in PortalSignals : PortalRespond(sig)
    \/ \E i \in RequestSteps : PortalRepeat(i)
    \/ AcquireTake
    \/ AcquireTimeout
    \/ \E ok \in BOOLEAN : AcquireOpenRemote(ok)
    \/ \E ok \in BOOLEAN : AcquireNewFile(ok)
    \/ \E ok \in BOOLEAN : PortalSpawn(ok)

SpecPortal == InitPortal /\ [][NextPortal]_vars

----------------------------------------------------------------------------
(* main (src/unnamed/part_000 lines 10-22) and the exit code, over the whole *)
(* program: the store starts absent or with the credentials of bridge 1, and *)
(* the user presses only enter and the quit keys, so that the first bridge   *)
(* and the first area of a list are taken and the delay is the default, and  *)
(* the writes of the credentials file succeed.                               *)

ExitKeys == QuitKeys \cup {"enter"}

InitExit ==
    /\ Init
    /\ store \in {AbsentStore,
                  StoreFile(DirMode, "ok", FileMode,
                            [NoEntries EXCEPT ![1] = Ptr(StoredCreds)])}

\* p.Run() returns an error (the terminal cannot be opened, the program is
\* killed): main prints it and calls os.Exit(1)
RunFails ==
    /\ ~terminated
    /\ terminated' = TRUE
    /\ runErr' = "program was killed"
    /\ exitCode' = 1
    /\ UNCHANGED <<m, store, cmds, msgs, strm, wire, log, nFrames, linkFails, storeCall,
                   sends, disc, cap, fn>>

NextExit ==
    \/ \E k \in ExitKeys : KeyPress(k)
    \/ \E msg \in msgs : Handle(msg, "ok")
    \/ \E c \in cmds : ScanRun(c)
    \/ \E c \in cmds : PairRun(c)
    \/ \E c \in cmds : FetchRun(c)
    \/ \E c \in cmds : ActivateRun(c)
    \/ \E c \in cmds : ConnectRun(c)
    \/ \E c \in cmds : FrameStart(c)
    \/ \E c \in cmds : FrameWriteEnd(c)
    \/ \E c \in cmds : TickFire(c)
    \/ \E c \in cmds : StopCloseBegin(c)
    \/ \E c \in cmds : StopCloseEnd(c)
    \/ \E c \in cmds : StopDeactivate(c)
    \/ RunFails

SpecExit == InitExit /\ [][NextExit]_vars

----------------------------------------------------------------------------
(* Steps, as the properties below name them *)

\* Update handles msg in this step: only the event loop takes messages away
Handled(msg) == msg \in msgs /\ msg \notin msgs'

\* Update handles a key press that has an effect: keys are the only events that
\* change the model, or end the program, without taking a message away
KeyStep == msgs' = msgs /\ (m' # m \/ terminated' # terminated)

\* what a save or delete that returned an error leaves behind: the file as it
\* was, or truncated so that no entry can be read from it
LeftByFailedWrite ==
    store' = store \/ store' = WriteFile(MkdirAll(store), "malformed", NoEntries)

\* the commands this step starts
Started == cmds' \ cmds

StopCmds == {c \in cmds : c.kind = "stop"}
FrameCmds == {c \in cmds : c.kind = "frame"}

\* in Pairing a key either quits or is the confirm that issues a pair request
ConfirmPairs ==
    (KeyStep /\ m.state = statePairing /\ ~terminated')
        => /\ m'.state = statePairingWait
           /\ Started = {pairCmd(Deref(m.selected).IP)}

HandledUnauthorized(msg) ==
    /\ Handled(msg)
    /\ msg.type = "areasFetched" /\ msg.err = ErrUnauthorized
    /\ m.state = stateFetchingAreas

\* what Update does with the model on Unauthorized
RejectedToPairing ==
    /\ m'.username = "" /\ m'.clientkey = ""
    /\ m'.state = statePairing /\ m'.pairErr = HintRejected
    /\ m'.selected = m.selected
    /\ ~terminated'

----------------------------------------------------------------------------
(* C1 *)

\* C1 as stated: when the area fetch completes with Unauthorized in FetchingAreas,
\* the stored entry of the selected bridge is gone afterwards, the in-memory keys
\* are cleared, the state is Pairing with the hint, the program goes on, and a
\* later confirm issues a pair request.
C1_AsStated ==
    /\ [][\A msg \in msgs : HandledUnauthorized(msg) =>
            /\ ~LoadCredentials(store', Deref(m.selected).ID).found
            /\ RejectedToPairing]_vars
    /\ [][ConfirmPairs]_vars

\* C1 amended: on Unauthorized in FetchingAreas the orchestrator calls delete for
\* the selected bridge's id and discards its result: when the call returned no
\* error the entry is gone and no other bridge's entry has changed, when it
\* returned one the file is as it was or truncated by the failed rewrite; the
\* in-memory keys are cleared, the state is Pairing with the hint, the program
\* goes on, and a later confirm issues a pair request.
C1_Amended ==
    /\ [][\A msg \in msgs : HandledUnauthorized(msg) =>
            LET id == Deref(m.selected).ID IN
            /\ storeCall'.op = "delete" /\ storeCall'.id = id
            /\ storeCall'.err = "" =>
                  /\ ~LoadCredentials(store', id).found
                  /\ \A other \in BridgeIDs \ {id} :
                        LoadCredentials(store', other) = LoadCredentials(store, other)
            /\ storeCall'.err # "" => LeftByFailedWrite
            /\ RejectedToPairing]_vars
    /\ [][ConfirmPairs]_vars

\* stored credentials were rejected and deleted, and the confirm that followed
\* has a pair request in flight
C1_Witness ==
    /\ m.state = statePairingWait /\ m.pairErr = HintRejected
    /\ storeCall.op = "delete" /\ storeCall.id = Deref(m.selected).ID /\ storeCall.err = ""
    /\ ~LoadCredentials(store, Deref(m.selected).ID).found
    /\ pairCmd(Deref(m.selected).IP) \in cmds

----------------------------------------------------------------------------
(* C2 *)

EntryWritten(id) ==
    /\ LoadCredentials(store', id).found
    /\ LoadCredentials(store', id) # LoadCredentials(store, id)

\* C2: an entry is written to the store only while a pair result is handled whose
\* success element held both an application key and a client key; no other event
\* and no success element lacking a key leads to a stored entry.
C2_Claim ==
    [][(\E id \in BridgeIDs : EntryWritten(id)) =>
          \E msg \in msgs :
              /\ Handled(msg)
              /\ msg.type = "pairResult" /\ msg.err = ""
              /\ msg.username # "" /\ msg.clientkey # ""]_vars

----------------------------------------------------------------------------
(* C3 *)

IsDeactivateOfSelected(e) ==
    /\ e.op = "deactivate"
    /\ e.ip = Deref(m.selected).IP /\ e.username = m.username
    /\ e.areaID = Deref(m.selectedArea).ID

\* C3: a quit key in Streaming moves to Stopping and starts exactly one stop
\* action, for the streamer and the selected area; that action closes the
\* transport before it issues deactivate, and issues deactivate whether the close
\* succeeded or failed.
C3_QuitStopsInOrder ==
    /\ [][(KeyStep /\ m.state = stateStreaming) =>
            /\ m'.state = stateStopping /\ ~terminated'
            /\ m.streamer # Nil
            /\ Started = {stopCmd(m.streamer, Deref(m.selected).IP, m.username,
                                  Deref(m.selectedArea).ID)}]_vars
    /\ [](Cardinality(StopCmds) + Cardinality({msg \in msgs : msg.type = "stopDone"}) <= 1)
    /\ [](m.streamer # Nil =>
            \A i \in 1..Len(log) :
                log[i].op = "deactivate" =>
                    /\ i > 1 /\ log[i - 1].op = "close"
                    /\ IsDeactivateOfSelected(log[i]))
    /\ [][\A c \in StopCmds : (c.pc = "closing" /\ c \notin cmds') =>
            /\ Len(log') = Len(log) + 1 /\ log'[Len(log')].op = "close"
            /\ \E c2 \in cmds' : c2.kind = "stop" /\ c2.pc = "deactivate"]_vars
    /\ [][\A c \in StopCmds : (c.pc = "deactivate" /\ c \notin cmds') =>
            /\ Len(log') = Len(log) + 1 /\ log'[Len(log')].op = "deactivate"
            /\ \E msg \in msgs' \ msgs : msg.type = "stopDone"]_vars

\* the close failed and the deactivate request was issued after it
C3_Witness ==
    /\ m.state = stateStopping /\ m.streamer # Nil
    /\ Len(log) = 3
    /\ log[2].op = "close" /\ ~log[2].ok
    /\ IsDeactivateOfSelected(log[3])

----------------------------------------------------------------------------
(* C4 *)

\* C4: from Stopping the program terminates only by handling the completion of
\* the stop action, which takes it to Done; no key press or other event ends it
\* earlier.
C4_Claim ==
    [][(m.state = stateStopping /\ ~terminated /\ terminated') =>
          /\ \E msg \in msgs : Handled(msg) /\ msg.type = "stopDone"
          /\ m'.state = stateDone]_vars

----------------------------------------------------------------------------
(* C5 *)

ConnectFailed == m.state = stateStopping /\ m.streamer = Nil

\* C5: a failed connect in Connecting records the error, moves to Stopping and
\* starts a stop action without a streamer, which issues deactivate for the
\* activated area and closes nothing; when that action completes the program ends
\* with an error and exit code 1, whether deactivate succeeded or not.
C5_ConnectFailure ==
    /\ [][\A msg \in msgs :
            (Handled(msg) /\ msg.type = "connectResult" /\ msg.err # ""
                /\ m.state = stateConnecting) =>
            /\ m'.err # "" /\ m'.state = stateStopping /\ ~terminated'
            /\ Started = {stopCmd(Nil, Deref(m.selected).IP, m.username,
                                  Deref(m.selectedArea).ID)}]_vars
    /\ [](ConnectFailed =>
            /\ \A i \in 1..Len(log) : log[i].op # "close"
            /\ \A c \in StopCmds : c.pc = "run" /\ c.s = Nil
            /\ \A msg \in msgs : msg.type = "stopDone" =>
                  /\ Len(log) = 2
                  /\ log[1].op = "activate" /\ log[1].ok
                  /\ IsDeactivateOfSelected(log[2])
                  /\ log[2].areaID = log[1].areaID)
    /\ [][\A msg \in msgs :
            (Handled(msg) /\ msg.type = "stopDone" /\ ConnectFailed) =>
            /\ terminated' /\ m'.state = stateDone
            /\ m'.err # "" /\ exitCode' = 1]_vars

\* the connect failed, deactivate succeeded, and the program still ended with 1
C5_Witness ==
    /\ terminated /\ m.state = stateDone /\ m.streamer = Nil
    /\ Len(log) = 2 /\ log[2].op = "deactivate" /\ log[2].ok
    /\ exitCode = 1

----------------------------------------------------------------------------
(* C6 *)

\* C6: no two operations on the transport session overlap: no close runs while
\* a frame's write is in flight, and no two frames are in flight at once.
C6_Claim ==
    /\ ~\E f \in FrameCmds, c \in StopCmds : f.pc = "writing" /\ c.pc = "closing"
    /\ Cardinality(FrameCmds) <= 1

----------------------------------------------------------------------------
(* C7 *)

\* C7: a pair that fails with LinkButtonNotPressed in PairingWait leads back to
\* Pairing with the hint, stores nothing and does not end the program, any number
\* of times in a row; any other pair failure ends the program with an error and
\* stores nothing.
C7_PairFailure ==
    /\ [][\A msg \in msgs :
            (Handled(msg) /\ msg.type = "pairResult" /\ msg.err # ""
                /\ m.state = statePairingWait) =>
            /\ store' = store /\ storeCall' = storeCall
            /\ msg.err = ErrLinkButtonNotPressed =>
                  /\ m'.state = statePairing /\ m'.pairErr = HintLinkButton
                  /\ m'.err = "" /\ ~terminated'
            /\ msg.err # ErrLinkButtonNotPressed =>
                  /\ m'.state = stateDone /\ m'.err # ""
                  /\ terminated' /\ exitCode' = 1]_vars
    /\ [][ConfirmPairs]_vars

\* the link button was not pressed several times in a row, and the program is
\* in Pairing again with the hint
C7_Witness ==
    /\ linkFails = MaxLinkFails
    /\ m.state = statePairing /\ m.pairErr = HintLinkButton
    /\ ~terminated

----------------------------------------------------------------------------
(* C8 *)

\* C8: a successful pair takes the returned keys into the model, clears the
\* hint, saves the keys under the selected bridge's id, moves to FetchingAreas
\* and issues the fetch with the new application key; when the save fails the
\* file is as it was or truncated, and everything else is the same.
C8_PairSuccess ==
    [][\A msg \in msgs :
          (Handled(msg) /\ msg.type = "pairResult" /\ msg.err = ""
              /\ m.state = statePairingWait) =>
          LET id == Deref(m.selected).ID IN
          /\ m'.username = msg.username /\ m'.clientkey = msg.clientkey
          /\ m'.pairErr = "" /\ m'.state = stateFetchingAreas /\ ~terminated'
          /\ Started = {fetchAreasCmd(Deref(m.selected).IP, msg.username)}
          /\ storeCall'.op = "save" /\ storeCall'.id = id
          /\ storeCall'.err = "" =>
                LoadCredentials(store', id) =
                    [creds |-> Creds(msg.username, msg.clientkey), found |-> TRUE,
                     err |-> ""]
          /\ storeCall'.err # "" => LeftByFailedWrite]_vars

\* the pair succeeded after a link-button failure, the save failed, and the fetch
\* is in flight with the new key
C8_Witness ==
    /\ m.state = stateFetchingAreas /\ m.username = "U1" /\ m.clientkey = "K1"
    /\ storeCall.op = "save" /\ storeCall.err # ""
    /\ ~LoadCredentials(store, Deref(m.selected).ID).found
    /\ fetchAreasCmd(Deref(m.selected).IP, "U1") \in cmds

----------------------------------------------------------------------------
(* C9 *)

\* C9: in Streaming a frame that failed leaves the state and the streamer as
\* they are, records the error, keeps the last color and schedules the next tick
\* after the capture delay; a frame that succeeded sets the last color and
\* clears the error, and schedules the next tick as well.
C9_FrameFailureGoesOn ==
    [][\A msg \in msgs :
          (Handled(msg) /\ msg.type = "frameSent" /\ m.state = stateStreaming) =>
          /\ m'.state = stateStreaming /\ m'.streamer = m.streamer /\ ~terminated'
          /\ strm' = strm
          /\ IsPositive64(m.captureDelay)
          /\ Started = {streamTickCmd(m.captureDelay)}
          /\ msg.err # "" => m'.streamErr = msg.err /\ m'.lastColor = m.lastColor
          /\ msg.err = "" => m'.streamErr = "" /\ m'.lastColor = msg.color]_vars

\* of two frames the first failed before anything was sent and the second
\* succeeded: the error is cleared and the color shown
C9_Witness ==
    /\ m.state = stateStreaming /\ nFrames = 2 /\ FrameCmds = {}
    /\ \A msg \in msgs : msg.type # "frameSent"
    /\ Deref(strm).seq = 1
    /\ m.streamErr = "" /\ m.lastColor \in Colors

----------------------------------------------------------------------------
(* C10 *)

\* C10: a new streamer has sequence 0; every send puts the current sequence
\* into byte 11 of its datagram and advances the sequence by one modulo 256;
\* nothing but a send changes the sequence; so consecutive datagrams carry
\* consecutive sequence bytes, 0 after 255.
C10_SequenceCounter ==
    /\ [](wire = <<>> => Deref(strm).seq = 0)
    /\ [][wire' # wire =>
            /\ wire'[12] = Deref(strm).seq
            /\ Deref(strm').seq = (Deref(strm).seq + 1) % 256
            /\ wire # <<>> => wire'[12] = (wire[12] + 1) % 256]_vars
    /\ [][Deref(strm').seq # Deref(strm).seq => wire' # wire]_vars
    /\ [](Deref(strm).seq \in 0..255)

\* the datagram with sequence byte 255 was sent and the counter is 0 again
C10_Witness == wire # <<>> /\ wire[12] = 255 /\ Deref(strm).seq = 0

----------------------------------------------------------------------------
(* C11 *)

\* C11 as stated: after 256 successful sends on a streamer its sequence byte is
\* 0 again, however many failed sends occurred in between.
C11_AsStated == [](sends.ok = 256 => Deref(strm).seq = 0)

\* C11 amended: every send advances the sequence by one modulo 256 whether its
\* write succeeded or failed, so the sequence is the number of sends so far
\* modulo 256: it is 0 again after 256 successful sends when no send failed in
\* between, and a failed send in between moves it on by one as well.
C11_Amended ==
    /\ [](Deref(strm).seq = (sends.ok + sends.failed) % 256)
    /\ []((sends.ok = 256 /\ sends.failed = 0) => Deref(strm).seq = 0)

\* 256 sends have succeeded, none has failed, and the sequence is 0 again
C11_Witness ==
    /\ sends.ok = 256 /\ sends.failed = 0
    /\ wire # <<>> /\ wire[12] = 255
    /\ Deref(strm).seq = 0

----------------------------------------------------------------------------
(* C12 *)

----------------------------------------------------------------------------
(* C13 *)

OthersUnchanged(id1) ==
    \A id2 \in BridgeIDs \ {id1} :
        LoadCredentials(store', id2) = LoadCredentials(store, id2)

\* C13: over any sequence of save and delete operations, a save or delete of
\* id1 leaves the stored entry of every other bridge as it was.
C13_Claim ==
    [][storeCall'.op \in {"save", "delete"} => OthersUnchanged(storeCall'.id)]_vars

\* what does hold: a save or delete that returned no error leaves the entries
\* of the other bridges as they were
C13_SuccessfulCallsIsolated ==
    [][(storeCall'.op \in {"save", "delete"} /\ storeCall'.err = "") =>
          OthersUnchanged(storeCall'.id)]_vars

----------------------------------------------------------------------------
(* C14 *)

\* C14: load returns not found and no error when the file does not exist, when
\* it is malformed and when it holds no entry for the id, and a load never
\* changes the file.
C14_LoadNotFound ==
    /\ [](\A id \in BridgeIDs :
            (store.file # "ok" \/ store.entries[id] = Nil) =>
                LoadCredentials(store, id) =
                    [creds |-> Creds("", ""), found |-> FALSE, err |-> ""])
    /\ [][storeCall'.op = "load" =>
            /\ store' = store
            /\ storeCall'.err = ""
            /\ storeCall'.found <=> (store.file = "ok" /\ store.entries[storeCall'.id] # Nil)]_vars

\* a load of a malformed file has returned not found and no error
C14_Witness ==
    /\ storeCall.op = "load" /\ ~storeCall.found /\ storeCall.err = ""
    /\ store.file = "malformed"

----------------------------------------------------------------------------
(* C15 *)

\* C15: after delete(id) a load of id returns not found, and delete completes
\* without error also when the file does not exist or holds no entry for id.
C15_Claim ==
    /\ [][(storeCall'.op = "delete" /\ storeCall'.err = "") =>
            ~LoadCredentials(store', storeCall'.id).found]_vars
    /\ [][(storeCall'.op = "delete" /\ store.file = "absent") => storeCall'.err = ""]_vars

----------------------------------------------------------------------------
(* C16 *)

\* C16: after every save that returned no error the file has mode 0600 and its
\* directory 0700, whether they were created by the save or existed before with
\* another mode; a delete keeps a file of mode 0600 at 0600.
C16_Claim ==
    /\ []((storeCall.op = "save" /\ storeCall.err = "") =>
            store.mode = FileMode /\ store.dir = DirMode)
    /\ [][(storeCall'.op = "delete" /\ store.mode = FileMode) => store'.mode = FileMode]_vars

\* what does hold: a save creates the file with 0600 and the directory with 0700
C16_CreatedWithModes ==
    [][(storeCall'.op = "save" /\ storeCall'.err = "") =>
          /\ store.file = "absent" => store'.mode = FileMode
          /\ store.dir = 0 => store'.dir = DirMode
          /\ store.file # "absent" => store'.mode = store.mode
          /\ store.dir # 0 => store'.dir = store.dir]_vars

----------------------------------------------------------------------------
(* C17 *)

\* the bridges of the entries delivered so far, in the order of their arrival
Delivered == [i \in 1..(disc.next - 1) |-> parseBridge(disc.feed[i])]

\* what a discovery run has to emit of a sequence of bridges: every bridge
\* without an id, and of the bridges with an id the first one of each id
RECURSIVE Admitted(_)
Admitted(bs) ==
    IF bs = <<>> THEN <<>>
    ELSE LET front == SubSeq(bs, 1, Len(bs) - 1)
             last == bs[Len(bs)]
         IN  IF last.ID # "" /\ \E i \in 1..Len(front) : front[i].ID = last.ID
             THEN Admitted(front)
             ELSE Append(Admitted(front), last)

\* C17: within one discovery run a bridge id is emitted at most once, however
\* many entries carry it and in whatever order they arrive, and every entry
\* without a bridge id is emitted: what has been emitted, with the bridge the
\* inner goroutine is about to emit, is exactly what was admitted of the
\* entries delivered.
C17_DedupByBridgeID ==
    /\ \A i, j \in 1..Len(disc.got) :
          (i < j /\ disc.got[i].ID # "") => disc.got[j].ID # disc.got[i].ID
    /\ (IF disc.pending # Nil THEN Append(disc.got, Deref(disc.pending)) ELSE disc.got)
          = Admitted(Delivered)

\* four entries were delivered: a bridge, the same bridge again, and two
\* entries without an id; the second was dropped and the other three emitted
C17_Witness ==
    /\ disc.next = 5 /\ disc.inner = "recv"
    /\ Len(disc.got) = 3
    /\ disc.got[1].ID = "b1" /\ disc.got[2].ID = "" /\ disc.got[3].ID = ""
    /\ disc.got[2].Name = 3 /\ disc.got[3].Name = 4

----------------------------------------------------------------------------
(* C18 *)

\* C18: every discovery run ends: the error channel carries at most one error,
\* both channels are closed once the deadline has elapsed, and at once when the
\* resolver cannot be constructed, and the scan action delivers its one scan
\* result in the end.
C18_Claim ==
    /\ [](disc.errsSent <= 1)
    /\ [](disc.bridgesClosed => disc.errsClosed)
    /\ [](disc.errsClosed => (disc.ctx = "done" \/ disc.inner = "none"))
    /\ <>(disc.scan = "done" /\ disc.result # Nil)

\* what does hold: a run in which no send of the inner goroutine meets the
\* closed channel delivers its scan result
C18_ResultUnlessPanic ==
    <>(disc.inner = "panic" \/ (disc.scan = "done" /\ disc.result # Nil))

----------------------------------------------------------------------------
(* C19 *)

\* the slot holds one complete frame the child wrote
SlotComplete(c) ==
    /\ c.frame # Nil
    /\ c.frame[1] >= 1
    /\ \A i \in 1..FrameParts : c.frame[i] = c.frame[1]

\* C19: the portal and media-tool factories return a capturer only after
\* the reader has stored one complete frame in the shared slot: whenever the
\* ready signal is raised the slot is allocated, and complete unless the
\* reader holds the mutex to copy a newer frame in; the signal is raised by a
\* step that finds the slot complete and leaves it alone, and never a second
\* time; a returned capturer has the signal raised, and no CaptureColor call
\* on it has returned "no frame captured yet".
C19_FirstFrameBeforeReturn ==
    /\ [](/\ cap.ready => cap.frame # Nil /\ (cap.mu # "reader" => SlotComplete(cap))
          /\ cap.result = "capturer" => cap.ready
          /\ cap.readyCloses <= 1
          /\ cap.ready <=> cap.readyCloses = 1
          /\ cap.last # Nil => Deref(cap.last).err = "")
    /\ [][/\ cap'.readyCloses > cap.readyCloses =>
                SlotComplete(cap) /\ cap.mu = "free" /\ cap'.frame = cap.frame
          /\ cap.ready => cap'.ready]_vars

\* the portal factory has returned a capturer, the reader has stored the last
\* frame of the child since, and a CaptureColor call on the capturer has returned a color
C19_Witness ==
    /\ cap.pc = "returned" /\ cap.result = "capturer"
    /\ cap.backend = "portal"
    /\ cap.last # Nil /\ Deref(cap.last).err = ""
    /\ cap.frame # Nil /\ cap.frame[1] = MaxChildFrames

----------------------------------------------------------------------------
(* C20 *)

\* the factory call has returned an error
FactoryFailed == cap.pc = "returned" /\ cap.result = "error"

\* nothing the call acquired is left: no child that was not reaped, no
\* reader that has not returned, no open descriptor or bus connection
NothingLeftOpen ==
    /\ cap.child \in {"none", "reaped"}
    /\ cap.reader \in {"none", "done"}
    /\ cap.pwFile \in {"none", "closed"}
    /\ cap.dbConn \in {"none", "closed"}

\* the releases of the timeout branch, in their order
TimeoutReleases(backend) ==
    IF backend = "portal" THEN <<"cancel", "reader", "reap", "pwFile", "dbConn">>
    ELSE <<"cancel", "reader", "reap">>

\* C20: when the 5 second timer fires before the first complete frame has
\* been stored (the child may have exited without one), the factory never
\* returns a capturer, it does return, and when it has returned it has
\* cancelled the child, waited for the reader, reaped the child and (portal
\* backend) closed the descriptor and the bus connection, in that order, and
\* the result is an error; after any failed factory call nothing the call
\* acquired remains open.
C20_TimeoutReleasesAll ==
    /\ [](/\ FactoryFailed => NothingLeftOpen
          /\ cap.fired => cap.result # "capturer"
          /\ cap.fired /\ cap.pc = "returned" =>
                /\ FactoryFailed
                /\ cap.released = TimeoutReleases(cap.backend))
    /\ (cap.fired ~> FactoryFailed)
    /\ <>(cap.pc = "returned")

\* the child of the portal backend exited before it had written a frame, the
\* timer fired, and the factory has returned the error
C20_Witness ==
    /\ FactoryFailed
    /\ cap.backend = "portal" /\ cap.fired
    /\ cap.produced = 0 /\ cap.readErr = "unexpected EOF"
    /\ cap.released = TimeoutReleases("portal")

----------------------------------------------------------------------------
(* C21 *)

\* the order in which NewCapturer goes through the backends
SelectorOrder == <<"portal", "ffmpeg", "x11">>

\* the label each backend is returned with
LabelOf(backend) ==
    CASE backend = "portal" -> "PipeWire"
      [] backend = "ffmpeg" -> "FFmpeg"
      [] backend = "x11" -> "X11"

\* C21: the selector tries the portal backend first, the media-tool backend
\* only after the portal factory returned an error, the screen-grab backend
\* only after both did: at every moment the backend at work is the one that
\* follows, in the order portal, media tool, screen grab, the backends that
\* have failed so far, each of which returned an error.  What the selector
\* returns is a capturer of the backend at work with that backend's label,
\* never an error, and under fair scheduling it does return.
C21_SelectorOrder ==
    /\ [](/\ Len(cap.tried) < Len(SelectorOrder)
          /\ cap.backend = SelectorOrder[Len(cap.tried) + 1]
          /\ \A i \in 1..Len(cap.tried) :
                cap.tried[i].backend = SelectorOrder[i] /\ cap.tried[i].err # ""
          /\ cap.selector = "returned" =>
                /\ cap.result = "capturer" /\ cap.err = ""
                /\ cap.method = LabelOf(cap.backend)
                /\ cap.backend \in Backends => cap.ready)
    /\ <>(cap.selector = "returned")

\* the portal factory timed out, the media-tool factory delivered its first
\* frame, and the selector has returned the media-tool capturer
C21_Witness ==
    /\ cap.selector = "returned"
    /\ cap.backend = "ffmpeg" /\ cap.method = "FFmpeg"
    /\ Len(cap.tried) = 1
    /\ cap.tried[1].err = "timed out waiting for first frame"

----------------------------------------------------------------------------
(* C22 *)

\* the ASCII text HueStream
Magic == <<72, 117, 101, 83, 116, 114, 101, 97, 109>>

\* C22: for every area id, channel list, color and sequence, the first 52
\* bytes of the built datagram are: bytes 0..8 the text HueStream, byte 9 = 2,
\* byte 10 = 0, byte 11 = the sequence, bytes 12..15 = 0, bytes 16..51 the
\* area id, right-padded with 0 when shorter than 36 bytes and cut to its
\* first 36 bytes when longer (byte i is element i + 1).
C22_Header ==
    fn.done =>
        /\ Len(fn.msg) >= 52
        /\ \A i \in 0..8 : fn.msg[i + 1] = Magic[i + 1]
        /\ fn.msg[9 + 1] = 2
        /\ fn.msg[10 + 1] = 0
        /\ fn.msg[11 + 1] = fn.in.seq
        /\ \A i \in 12..15 : fn.msg[i + 1] = 0
        /\ \A i \in 16..51 :
              fn.msg[i + 1] = IF i - 16 < Len(fn.in.areaID)
                              THEN fn.in.areaID[i - 16 + 1] ELSE 0

\* a datagram built for an area id shorter than 36 bytes and the last
\* sequence number
C22_Witness ==
    /\ fn.done
    /\ Len(fn.in.areaID) = 35 /\ fn.in.seq = 255
    /\ fn.msg[51 + 1] = 0 /\ fn.msg[50 + 1] # 0

\* a datagram built for an area id longer than 36 bytes
C22_WitnessCut ==
    /\ fn.done
    /\ Len(fn.in.areaID) > 36
    /\ fn.msg[51 + 1] = fn.in.areaID[36]

----------------------------------------------------------------------------
(* C23 *)

\* C23: for a channel list of length k >= 0 the built datagram has length
\* 52 + 7k, and for each i < k the 7 bytes at offset 52 + 7i are
\* channel_ids[i], then R16, G16, B16 big-endian, each 16-bit value being the
\* 8-bit component times 257, so that its high and its low byte both equal
\* the component; the blocks are in the order of the list and carry the
\* same color.
C23_ChannelBlocks ==
    fn.done =>
        LET k == Len(fn.in.channelIDs)
            c == fn.in.c
            at(off) == fn.msg[off + 1]
            u16(off) == at(off) * 256 + at(off + 1)
        IN  /\ Len(fn.msg) = 52 + 7 * k
            /\ \A i \in 0..(k - 1) :
                  LET o == 52 + 7 * i
                  IN  /\ at(o) = fn.in.channelIDs[i + 1]
                      /\ u16(o + 1) = c.R * 257
                      /\ u16(o + 3) = c.G * 257
                      /\ u16(o + 5) = c.B * 257
                      /\ at(o + 1) = c.R /\ at(o + 2) = c.R
                      /\ at(o + 3) = c.G /\ at(o + 4) = c.G
                      /\ at(o + 5) = c.B /\ at(o + 6) = c.B
                      /\ \A j \in 0..6 : at(o + j) \in 0..255

\* a datagram built for the longest channel list and a color with the
\* component 255
C23_Witness ==
    /\ fn.done
    /\ Len(fn.in.channelIDs) = MaxChannels
    /\ fn.in.channelIDs[1] # fn.in.channelIDs[MaxChannels]
    /\ fn.in.c.R = 255
    /\ Len(fn.msg) = 52 + 7 * MaxChannels

----------------------------------------------------------------------------
(* C24 *)

\* component k (0, 1, 2) of pixel i (from 0) of a packed buffer
PackedAt(buf, i, k) == buf[3 * i + k + 1]

\* q is total divided by n, truncated
IsTruncatedMean(q, total, n) == q * n <= total /\ total < (q + 1) * n

\* the sum of component k over the pixels of the set
RECURSIVE TotalOver(_, _, _)
TotalOver(buf, pixelSet, k) ==
    IF pixelSet = {} THEN 0
    ELSE LET i == CHOOSE x \in pixelSet : TRUE
         IN  PackedAt(buf, i, k) + TotalOver(buf, pixelSet \ {i}, k)

\* C24: for a packed buffer of 3 * pixel_count bytes the packed averager
\* returns, per component, the sum of the component over all pixels divided
\* by pixel_count and truncated; a buffer filled with one color gives that
\* color, one black and one white pixel give (127,127,127), and
\* pixel_count = 0 gives (0,0,0).
C24_PackedAverage ==
    fn.done =>
        LET n == fn.pixels
            all == 0..(n - 1)
        IN  /\ n > 0 =>
                /\ IsTruncatedMean(fn.out.R, TotalOver(fn.buf, all, 0), n)
                /\ IsTruncatedMean(fn.out.G, TotalOver(fn.buf, all, 1), n)
                /\ IsTruncatedMean(fn.out.B, TotalOver(fn.buf, all, 2), n)
            /\ (n > 0 /\ \A i \in all, k \in 0..2 : PackedAt(fn.buf, i, k) = PackedAt(fn.buf, 0, k)) =>
                fn.out = RGB(PackedAt(fn.buf, 0, 0), PackedAt(fn.buf, 0, 1), PackedAt(fn.buf, 0, 2))
            /\ fn.buf = <<0, 0, 0, 255, 255, 255>> => fn.out = RGB(127, 127, 127)
            /\ n = 0 => fn.out = RGB(0, 0, 0)

\* the average of one black and one white pixel has been returned
C24_Witness ==
    /\ fn.done
    /\ fn.buf = <<0, 0, 0, 255, 255, 255>>
    /\ fn.out = RGB(127, 127, 127)

----------------------------------------------------------------------------
(* C25 *)

\* C25: for a surface of width w and height h with a row stride >= 4w the
\* strided averager samples exactly the pixel indices 0, step, 2*step, ...
\* below w*h, with step = max(1, (w*h) / 10000): the k-th iteration is at
\* index k*step, the loop ends only at an index >= w*h, and the result comes
\* only after that.  Iteration at index i reads the three bytes at offset
\* (i / w) * stride + (i % w) * 4, which lie inside the surface and are the
\* red, green and blue of the pixel in row i / w and column i % w; alpha is
\* not read.  The result is the truncated mean of the samples per component;
\* the sample count is not 0 when w*h > 0, a surface of one color gives that
\* color and an empty surface gives (0,0,0); no run panics.
C25_StridedAverage ==
    /\ [](fn.pc # "entry" =>
            LET n == fn.img.w * fn.img.h
            IN  /\ fn.pc # "panic"
                /\ n > 0 =>
                     /\ fn.step >= 1
                     /\ n < 2 * 10000 => fn.step = 1
                     /\ n >= 10000 => fn.step * 10000 <= n /\ n < (fn.step + 1) * 10000
                     /\ fn.i = fn.count * fn.step
                     /\ fn.count > 0 => (fn.count - 1) * fn.step < n
                /\ fn.done /\ n > 0 =>
                     /\ fn.count > 0 /\ fn.i >= n
                     /\ IsTruncatedMean(fn.out.R, fn.rSum, fn.count)
                     /\ IsTruncatedMean(fn.out.G, fn.gSum, fn.count)
                     /\ IsTruncatedMean(fn.out.B, fn.bSum, fn.count)
                     /\ fn.img.pattern = "uniform" => fn.out = PixelColor("uniform", 0, 0)
                /\ fn.done /\ n = 0 => fn.out = RGB(0, 0, 0) /\ fn.count = 0)
    /\ [][fn.pc = "loop" /\ ~fn'.done =>
            LET i == fn.i
                w == fn.img.w
                c == PixelColor(fn.img.pattern, i \div w, i % w)
            IN  /\ fn'.off = (i \div w) * fn.img.stride + (i % w) * 4
                /\ fn'.off >= 0
                /\ fn'.off + 2 < (fn.img.h - 1) * fn.img.stride + 4 * w
                /\ fn'.rSum = fn.rSum + c.R
                /\ fn'.gSum = fn.gSum + c.G
                /\ fn'.bSum = fn.bSum + c.B
                /\ fn'.count = fn.count + 1
                /\ fn'.i = i + fn.step]_vars

\* the average of a surface of 199 x 151 pixels with rows wider than 4 * w
\* has been returned: step 3, the last sample in the last row
C25_Witness ==
    /\ fn.done /\ fn.pc = "done"
    /\ fn.img.w = 199 /\ fn.img.h = 151 /\ fn.img.stride > 4 * 199
    /\ fn.img.pattern = "mixed"
    /\ fn.step = 3
    /\ fn.off \div fn.img.stride = 150

----------------------------------------------------------------------------
(* C26 *)

\* a result that Update treats as fatal: a failed or empty scan, a failed
\* pairing other than the link button, a failed fetch other than a rejection
\* of the credentials, no areas, a failed activate, a failed connect
FatalResult(msg) ==
    \/ msg.type = "scanDone" /\ (msg.err # "" \/ Len(msg.bridges) = 0)
    \/ msg.type = "pairResult" /\ msg.err \notin {"", ErrLinkButtonNotPressed}
    \/ msg.type = "areasFetched" /\ msg.err \notin {"", ErrUnauthorized}
    \/ msg.type = "areasFetched" /\ msg.err = "" /\ Len(msg.areas) = 0
    \/ msg.type = "activateResult" /\ msg.err # ""
    \/ msg.type = "connectResult" /\ msg.err # ""

\* C26: the process exits with code 0 when it terminates with no error
\* recorded, and with a non-zero code when an error was recorded or p.Run()
\* itself returned an error; every fatal result records an error, a stop that
\* failed records one, and a recorded error is never taken back before the
\* program ends.
C26_ExitCode ==
    /\ [](terminated =>
            /\ exitCode \in {0, 1}
            /\ exitCode = 0 <=> (m.err = "" /\ runErr = ""))
    /\ [](~terminated => exitCode = -1)
    /\ [][m.err # "" => m'.err # ""]_vars
    /\ [][\A msg \in msgs :
            (Handled(msg) /\ FatalResult(msg)) => m'.err # ""]_vars
    /\ [][\A msg \in msgs :
            (Handled(msg) /\ msg.type = "stopDone") =>
                /\ terminated'
                /\ exitCode' = IF msg.err = "" /\ m.err = "" THEN 0 ELSE 1]_vars
    /\ [][(KeyStep /\ terminated' /\ runErr' = "") =>
            exitCode' = IF m.err = "" THEN 0 ELSE 1]_vars
    /\ [][runErr' # "" => exitCode' = 1]_vars

\* the user quit while streaming, the stop completed without error, and the
\* process has exited with code 0
C26_Witness ==
    /\ terminated /\ exitCode = 0 /\ runErr = ""
    /\ m.state = stateDone /\ m.streamer # Nil
    /\ Len(log) = 3 /\ log[3].op = "deactivate" /\ log[3].ok

\* the connect failed, the user pressed a quit key before the stop action
\* had completed, and the process has exited with a non-zero code
C26_WitnessFatal ==
    /\ terminated /\ exitCode = 1 /\ runErr = ""
    /\ m.state = stateStopping /\ m.streamer = Nil /\ m.err # ""

----------------------------------------------------------------------------
(* C27 *)

\* the fields of the first element of a decoded array
FirstError(reply) == reply.result[1].Error
FirstSuccess(reply) == reply.result[1].Success

\* the reply decoded to an array whose first element is an error of type 101
LinkButtonReply(reply) ==
    /\ reply.http = "ok" /\ Len(reply.result) > 0
    /\ FirstError(reply) # Nil /\ Deref(FirstError(reply)).Type = 101

\* C27: pair classifies a decoded reply by its first array element only: an
\* error of type 101 gives LinkButtonNotPressed; an error of another type
\* gives a bridge error that is not LinkButtonNotPressed and differs for
\* different types or descriptions; a success without error gives the two
\* keys of the element; an empty array, or a first element with neither
\* field, gives an error that is neither of these.  The orchestrator goes
\* back to Pairing with the link-button hint exactly for LinkButtonNotPressed,
\* also when a bridge error carries the same text, and ends the program for
\* every other error.
C27_PairClassification ==
    /\ (fn.pc # "call" /\ fn.reply.http = "ok") =>
          LET reply == fn.reply
              none == fn.out.username = "" /\ fn.out.clientkey = ""
              malformed == /\ none
                           /\ fn.out.err \notin {"", ErrLinkButtonNotPressed}
                           /\ \A t \in {0, 7}, d \in {"", "link button not pressed"} :
                                 fn.out.err # BridgeError(t, d)
          IN  IF Len(reply.result) = 0 THEN malformed
              ELSE IF FirstError(reply) # Nil
              THEN LET e == Deref(FirstError(reply))
                   IN  /\ none
                       /\ e.Type = 101 => fn.out.err = ErrLinkButtonNotPressed
                       /\ e.Type # 101 =>
                             /\ fn.out.err \notin {"", ErrLinkButtonNotPressed}
                             /\ \A t \in {0, 7}, d \in {"", "link button not pressed"} :
                                   fn.out.err = BridgeError(t, d) <=>
                                       (t = e.Type /\ d = e.Description)
              ELSE IF FirstSuccess(reply) # Nil
              THEN /\ fn.out.err = ""
                   /\ fn.out.username = Deref(FirstSuccess(reply)).Username
                   /\ fn.out.clientkey = Deref(FirstSuccess(reply)).Clientkey
              ELSE malformed
    /\ fn.pc = "handled" =>
          /\ LinkButtonReply(fn.reply) <=>
                (fn.m.state = statePairing /\ fn.m.pairErr = HintLinkButton /\ ~fn.quit)
          /\ (fn.out.err # "" /\ ~LinkButtonReply(fn.reply)) =>
                (fn.quit /\ fn.m.err # "" /\ fn.m.state = stateDone)

\* the bridge answered with an error of type 7 whose description is the text
\* of LinkButtonNotPressed, followed by a success element: the result is a
\* bridge error and the program has ended
C27_Witness ==
    /\ fn.pc = "handled" /\ fn.quit
    /\ Len(fn.reply.result) = 2
    /\ FirstError(fn.reply) # Nil
    /\ Deref(FirstError(fn.reply)).Type = 7
    /\ Deref(FirstError(fn.reply)).Description = "link button not pressed"
    /\ fn.reply.result[2] = pairSuccess("U1", "K1")
    /\ fn.out.err = BridgeError(7, "link button not pressed")

----------------------------------------------------------------------------
(* C28 *)

\* C28: when the scan result has been handled in Scanning: if the scan
\* reported an error, also one read after bridges had been found, or found no
\* bridge, the program has ended with an error recorded and nothing started;
\* if it found exactly one bridge, that bridge is selected, the list of
\* bridges to choose from stays empty and the state is FetchingAreas or
\* Pairing, never Selecting; if it found more, the state is Selecting with
\* the bridges found as the list and no bridge selected, and the program
\* goes on.
C28_ScanResult ==
    (fn.name = "scanCmd" /\ fn.pc = "handled") =>
        IF fn.err # "" \/ Len(fn.found) = 0
        THEN /\ fn.quit /\ fn.m.state = stateDone /\ fn.m.err # ""
             /\ fn.cmds = {} /\ fn.m.selected = Nil /\ fn.m.bridges = <<>>
        ELSE IF Len(fn.found) = 1
        THEN /\ ~fn.quit /\ fn.m.err = ""
             /\ fn.m.selected = Ptr(fn.found[1])
             /\ fn.m.bridges = <<>>
             /\ fn.m.state \in {stateFetchingAreas, statePairing}
        ELSE /\ ~fn.quit /\ fn.m.err = ""
             /\ fn.m.state = stateSelecting
             /\ fn.m.bridges = fn.found
             /\ fn.m.selected = Nil
             /\ fn.cmds = {}

\* the scan found one bridge and read no error: the bridge was selected at once
C28_Witness ==
    /\ fn.name = "scanCmd" /\ fn.pc = "handled"
    /\ Len(fn.found) = 1 /\ fn.err = ""
    /\ fn.m.selected = Ptr(BridgeOf(1)) /\ fn.m.state = statePairing

\* the scan found bridges and then read an error: the program has ended
C28_WitnessErrorAfterBridges ==
    /\ fn.name = "scanCmd" /\ fn.pc = "handled"
    /\ Len(fn.found) > 0 /\ fn.err = "browsing for Hue bridges"
    /\ fn.quit /\ fn.m.err = "browsing for Hue bridges"

----------------------------------------------------------------------------
(* C29 *)

\* the credentials file is a well-formed map that holds an entry for the id
StoredFor(st, id) == st.file = "ok" /\ st.entries[id] # Nil

\* a bridge is chosen in this step, by a scan result with one bridge or by
\* Enter in Selecting
EnterSelected == KeyStep /\ m.state = stateSelecting /\ m'.selected # Nil

\* what follows the choice of bridge b, as the store is
ChosenOutcome(b) ==
    /\ m'.selected = Ptr(b)
    /\ ~terminated' /\ store' = store /\ m'.err = ""
    /\ IF StoredFor(store, b.ID)
       THEN /\ m'.state = stateFetchingAreas
            /\ m'.username = Deref(store.entries[b.ID]).Username
            /\ m'.clientkey = Deref(store.entries[b.ID]).Clientkey
            /\ Started = {fetchAreasCmd(b.IP, Deref(store.entries[b.ID]).Username)}
       ELSE /\ m'.state = statePairing
            /\ m'.username = "" /\ m'.clientkey = ""
            /\ Started = {}

\* the last call on the credentials file was the delete that follows a
\* rejection of the credentials of this id
Rejected(id) == storeCall.op = "delete" /\ storeCall.id = id

\* C29: a bridge chosen automatically (the only bridge of the scan result)
\* and a bridge chosen by Enter in Selecting (the bridge under the cursor)
\* lead to the same outcome: FetchingAreas with the stored keys and a fetch
\* started with them when the credentials file holds an entry for the
\* bridge's id, Pairing with nothing started when the entry is absent or the
\* file is absent or malformed.  A pair request is started only when no
\* credentials are stored for the selected bridge or the stored ones were
\* rejected by the bridge.
C29_ChosenBridge ==
    /\ [][\A msg \in msgs : (Handled(msg) /\ msg.type = "scanDone" /\ m'.selected # Nil)
              => (Len(msg.bridges) = 1 /\ ChosenOutcome(msg.bridges[1]))]_vars
    /\ [][EnterSelected => ChosenOutcome(m.bridges[m.cursor + 1])]_vars
    /\ [][(\E c \in Started : c.kind = "pair") =>
              /\ m.selected # Nil
              /\ ~StoredFor(store, Deref(m.selected).ID) \/ Rejected(Deref(m.selected).ID)]_vars

\* the second bridge of the list was chosen by Enter and its stored keys are
\* in use for the fetch
C29_Witness ==
    /\ m.state = stateFetchingAreas
    /\ Len(m.bridges) = 2 /\ m.cursor = 1 /\ m.selected = Ptr(BridgeOf(2))
    /\ StoredFor(store, 2) /\ storeCall = NoCall
    /\ m.username = StoredCreds.Username
    /\ fetchAreasCmd(BridgeOf(2).IP, StoredCreds.Username) \in cmds

\* the only bridge found was chosen automatically and the credentials file
\* is malformed: the orchestrator asks for pairing
C29_WitnessMalformed ==
    /\ m.state = statePairing /\ m.bridges = <<>> /\ m.selected = Ptr(BridgeOf(1))
    /\ store.file = "malformed" /\ storeCall = NoCall

----------------------------------------------------------------------------
(* C30 *)

\* the area fetch succeeded and its result is handled in this step
FetchSucceeded(msg) == Handled(msg) /\ msg.type = "areasFetched" /\ msg.err = ""

\* Enter in SelectingArea: the only key there that leaves the state without
\* ending the program
AreaEntered == KeyStep /\ m.state = stateSelectingArea /\ ~terminated'
                       /\ m'.state # stateSelectingArea

\* C30: when the area fetch succeeds, zero areas end the program with an
\* error recorded; exactly one area is selected and the state is InputDelay,
\* the list to choose from left empty; more than one area enters
\* SelectingArea with the fetched areas as the list.  In SelectingArea the
\* cursor is always an index of the list, Enter selects the area under it
\* and enters InputDelay, and a selected area is always one of the fetched
\* areas.
C30_AreasFetched ==
    /\ [][\A msg \in msgs : FetchSucceeded(msg) =>
            /\ m.state = stateFetchingAreas
            /\ Len(msg.areas) = 0 =>
                  terminated' /\ m'.state = stateDone /\ m'.err # "" /\ m'.selectedArea = Nil
            /\ Len(msg.areas) = 1 =>
                  /\ ~terminated' /\ m'.state = stateInputDelay
                  /\ m'.selectedArea = Ptr(msg.areas[1])
                  /\ m'.areas = <<>>
            /\ Len(msg.areas) > 1 =>
                  /\ ~terminated' /\ m'.state = stateSelectingArea
                  /\ m'.areas = msg.areas /\ m'.selectedArea = Nil
                  /\ m'.areaCursor = 0]_vars
    /\ [][AreaEntered =>
            /\ m'.state = stateInputDelay
            /\ m'.selectedArea = Ptr(m.areas[m.areaCursor + 1])
            /\ m'.areas = m.areas]_vars
    /\ [](m.state = stateSelectingArea =>
            Len(m.areas) > 1 /\ m.areaCursor \in 0..(Len(m.areas) - 1))
    /\ []((m.selectedArea # Nil /\ m.areas # <<>>) =>
            \E i \in 1..Len(m.areas) : m.selectedArea = Ptr(m.areas[i]))

\* the user moved the cursor to the last area of the list and pressed Enter:
\* the last area is selected
C30_Witness ==
    /\ m.state = stateInputDelay
    /\ Len(m.areas) = MaxAreas /\ m.areaCursor = MaxAreas - 1
    /\ m.selectedArea = Ptr(AreaOf(MaxAreas))

\* the only area fetched was selected automatically
C30_WitnessSingle ==
    /\ m.state = stateInputDelay /\ m.areas = <<>> /\ m.selectedArea = Ptr(AreaOf(1))

----------------------------------------------------------------------------
(* C31 *)

\* the digits of a number of milliseconds, read as nanoseconds
AsNanoseconds(ds) == DigitsValue(ds \o <<0, 0, 0, 0, 0, 0>>, Len(ds) + 6)

\* the digit string is a positive integer that strconv.Atoi can return
ParsesPositive(ds) ==
    ds # <<>> /\ With(DigitsValue(ds, Len(ds)), LAMBDA p : ~p.range /\ p.n # Zero64)

\* C31: on Enter in InputDelay the capture delay is the entered number of
\* milliseconds when the input parses as a positive integer and 100 ms
\* otherwise; in both cases it is strictly positive; the state is Activating
\* and exactly one activate request, for the selected area, is issued.
C31_Claim ==
    fn.done =>
        /\ IF ParsesPositive(fn.input)
           THEN /\ ~AsNanoseconds(fn.input).range
                /\ fn.m.captureDelay = AsNanoseconds(fn.input).n
           ELSE fn.m.captureDelay = AsNanoseconds(<<1, 0, 0>>).n
        /\ IsPositive64(fn.m.captureDelay)
        /\ fn.m.state = stateActivating /\ ~fn.quit
        /\ fn.cmds = {activateCmd(Deref(fn.m.selected).IP, fn.m.username,
                                  Deref(fn.m.selectedArea).ID)}

\* what holds for every input: the delay of an input of at most 12 digits
\* is as stated, and an activate request is issued in every case
C31_UpTo12Digits ==
    fn.done =>
        /\ Len(fn.input) <= 12 =>
              /\ IsPositive64(fn.m.captureDelay)
              /\ fn.m.captureDelay = IF ParsesPositive(fn.input)
                                     THEN AsNanoseconds(fn.input).n
                                     ELSE AsNanoseconds(<<1, 0, 0>>).n
        /\ fn.m.state = stateActivating /\ ~fn.quit
        /\ fn.cmds = {activateCmd(Deref(fn.m.selected).IP, fn.m.username,
                                  Deref(fn.m.selectedArea).ID)}

\* 9223372036855 was entered: the delay is negative
C31_NegativeDelay ==
    /\ fn.done /\ fn.input = <<9,2,2,3,3,7,2,0,3,6,8,5,5>>
    /\ IsNegative64(fn.m.captureDelay)

----------------------------------------------------------------------------
(* C32 *)

TickCmds == {c \in cmds : c.kind = "tick"}

\* the stream loop's turn: a capture-and-send action, its completion waiting
\* to be handled, a pending tick, or a tick waiting to be handled
LoopTurns ==
    Cardinality(FrameCmds) + Cardinality(TickCmds)
        + Cardinality({msg \in msgs : msg.type \in {"frameSent", "streamTick"}})

\* the commands of the stream loop this step starts
StartedLoop == {c \in Started : c.kind \in {"frame", "tick"}}

\* C32: at any time there is at most one capture-and-send action, frame
\* completion, pending tick or fired tick, and exactly one while the state is
\* Streaming; entering Streaming starts the first capture-and-send action,
\* handling a frame completion starts exactly one tick with the capture
\* delay, and handling a tick in Streaming starts exactly one
\* capture-and-send action for the streamer in use.
C32_OneTurn ==
    /\ [](LoopTurns <= 1)
    /\ [](m.state = stateStreaming => LoopTurns = 1)
    /\ [][\A msg \in msgs : (Handled(msg) /\ msg.type = "connectResult" /\ msg.err = "") =>
            /\ m'.state = stateStreaming
            /\ \E c \in cmds' : /\ c.kind = "frame" /\ c.s = m'.streamer
                                /\ StartedLoop = {c}]_vars
    /\ [][\A msg \in msgs : (Handled(msg) /\ msg.type = "frameSent") =>
            StartedLoop = {streamTickCmd(m'.captureDelay)} /\ TickCmds = {}]_vars
    /\ [][\A msg \in msgs :
            (Handled(msg) /\ msg.type = "streamTick" /\ m.state = stateStreaming) =>
            /\ \E c \in cmds' : /\ c.kind = "frame" /\ c.s = m.streamer
                                /\ StartedLoop = {c}
            /\ FrameCmds = {}]_vars

\* the third frame of a session is in flight, alone
C32_Witness ==
    /\ m.state = stateStreaming /\ nFrames = 3
    /\ Cardinality(FrameCmds) = 1 /\ TickCmds = {}
    /\ \A msg \in msgs : msg.type \notin {"frameSent", "streamTick"}

----------------------------------------------------------------------------
(* C33 *)

\* the capture-and-send actions dispatched in this step (an action already
\* running changes its position, which is no dispatch)
Dispatched == {c \in Started : c.kind = "frame" /\ c.pc = "run"}

\* C33: in Stopping and Done no capture-and-send action is dispatched by any
\* step; a tick handled there changes nothing and starts nothing; a frame
\* completion handled there leaves the state, the streamer and the running
\* stop action as they are and does not end the program.
C33_NoFrameAfterQuit ==
    /\ [][m.state \in {stateStopping, stateDone} => Dispatched = {}]_vars
    /\ [][\A msg \in msgs :
            (Handled(msg) /\ msg.type = "streamTick" /\ m.state \in {stateStopping, stateDone})
            => (m' = m /\ Started = {} /\ ~terminated')]_vars
    /\ [][\A msg \in msgs :
            (Handled(msg) /\ msg.type = "frameSent" /\ m.state \in {stateStopping, stateDone})
            => /\ m'.state = m.state /\ m'.streamer = m.streamer /\ m'.err = m.err
               /\ ~terminated'
               /\ StopCmds \subseteq cmds']_vars

\* the user quit while a frame was in flight; the frame completed, its tick
\* fired and was handled, and nothing of the stream loop is left while the
\* stop action is still running
C33_Witness ==
    /\ m.state = stateStopping /\ m.streamer # Nil /\ ~terminated
    /\ nFrames >= 1 /\ LoopTurns = 0
    /\ StopCmds # {}

----------------------------------------------------------------------------
(* C34 *)

\* C34: when the program has terminated, every activate request that
\* succeeded is followed by a deactivate request for the same area.
C34_Claim ==
    terminated =>
        \A i \in 1..Len(log) :
            (log[i].op = "activate" /\ log[i].ok) =>
                \E j \in (i + 1)..Len(log) :
                    log[j].op = "deactivate" /\ log[j].areaID = log[i].areaID

\* the user quit in Connecting: the program has ended with the area
\* activated and no deactivate request issued
C34_QuitWhileConnecting ==
    /\ terminated /\ m.state = stateConnecting
    /\ Len(log) = 1 /\ log[1].op = "activate" /\ log[1].ok

\* the user quit in Streaming and again in Stopping before the stop action
\* reached its deactivate request
C34_QuitWhileStopping ==
    /\ terminated /\ m.state = stateStopping /\ m.streamer # Nil
    /\ log[1].op = "activate" /\ log[1].ok
    /\ \A j \in 1..Len(log) : log[j].op # "deactivate"

\* what holds: a program that ends in Done after a successful activate has
\* issued the deactivate request for the area
C34_DoneAfterDeactivate ==
    (terminated /\ m.state = stateDone) =>
        \A i \in 1..Len(log) :
            (log[i].op = "activate" /\ log[i].ok) =>
                \E j \in (i + 1)..Len(log) :
                    log[j].op = "deactivate" /\ log[j].areaID = log[i].areaID

----------------------------------------------------------------------------
(* C35 *)

\* the bytes are those of one frame the child wrote
OneFrame(parts) == \E f \in 1..MaxChildFrames : parts = [i \in 1..FrameParts |-> f]

\* C35: the reader's copy into the shared slot never overlaps with the
\* averaging of the slot's bytes, and every color CaptureColor returns is
\* the average of the bytes of one complete frame.
C35_Claim ==
    /\ ~(cap.caller = "average" /\ cap.reader = "copy")
    /\ (cap.last # Nil /\ Deref(cap.last).err = "") => OneFrame(Deref(cap.last).parts)

\* CaptureColor has averaged the first part of frame 1 and the last part of
\* frame 2
C35_TornFrame ==
    /\ cap.last # Nil /\ Deref(cap.last).err = ""
    /\ Deref(cap.last).parts[1] = 1 /\ Deref(cap.last).parts[FrameParts] = 2

\* what the mutex does guarantee: the slot is read and written under it, and
\* the reader never copies while CaptureColor holds it
C35_SlotReadUnderMutex ==
    /\ cap.reader = "copy" => cap.mu = "reader"
    /\ cap.mu \in {"free", "reader"}

----------------------------------------------------------------------------
(* C36 *)

\* C36: the inner goroutine never executes its send of a bridge when the
\* bridge channel has been closed: no step that attempts the send finds the
\* channel closed, and no send ends in a panic.
C36_Claim ==
    /\ [](disc.inner # "panic")
    /\ [][(disc.inner = "send" /\ disc'.inner # "send") => ~disc.bridgesClosed]_vars

\* the deadline elapsed while a resolved bridge was waiting to be sent; the
\* outer goroutine closed both channels and the send met the closed channel
C36_SendOnClosed ==
    /\ disc.inner = "panic" /\ disc.pending # Nil
    /\ disc.ctx = "done" /\ disc.errsClosed /\ disc.bridgesClosed

\* what holds: every bridge scanCmd received was sent while the channel was
\* open, and a send on the closed channel delivers nothing
C36_NothingDeliveredAfterClose ==
    [][disc.bridgesClosed => disc'.got = disc.got]_vars

----------------------------------------------------------------------------
(* C37 *)

\* what a capturer acquires, in the order of acquisition, and the release
\* of each
AcquisitionOrder(backend) ==
    IF backend = "portal" THEN <<"dbConn", "pwFile", "child", "reader">>
    ELSE <<"child", "reader">>
ReleaseOf(acquired) == IF acquired = "child" THEN "reap" ELSE acquired

\* the steps of Close: the cancel, then the releases in the reverse order of
\* the acquisitions
CloseOrder(backend) ==
    LET acq == AcquisitionOrder(backend) IN
    <<"cancel">> \o [i \in 1..Len(acq) |-> ReleaseOf(acq[Len(acq) + 1 - i])]

ClosePcs == {"Close.waitDone", "Close.Wait", "Close.pwFile", "Close.dbConn", "closed"}

\* C37: Close of a portal capturer cancels the child, waits for the reader,
\* reaps the child, closes the descriptor and closes the bus connection, in
\* that order, which after the cancel is the reverse of the order in which
\* the bus connection, the descriptor, the child and the reader were
\* acquired; Close of a media-tool capturer cancels, waits for the reader and
\* reaps the child.  Close goes beyond its wait, and returns, only when the
\* reader has returned; when it has returned nothing is left open.
C37_CloseOrder ==
    /\ [](cap.pc \in ClosePcs =>
            /\ \E n \in 1..Len(CloseOrder(cap.backend)) :
                  cap.released = SubSeq(CloseOrder(cap.backend), 1, n)
            /\ cap.pc # "Close.waitDone" => cap.reader = "done" /\ cap.done
            /\ cap.pc = "closed" =>
                  /\ cap.released = CloseOrder(cap.backend)
                  /\ NothingLeftOpen /\ cap.child = "reaped" /\ cap.ctx = "cancelled")
    /\ [](cap.backend = "portal" =>
            /\ cap.pwFile # "none" => cap.dbConn # "none"
            /\ cap.child # "none" => cap.pwFile # "none"
            /\ cap.reader # "none" => cap.child # "none")
    /\ [](/\ (cap.dbConn = "closed" /\ cap.pwFile # "none") => cap.pwFile = "closed"
          /\ (cap.pwFile = "closed" /\ cap.child # "none") => cap.child = "reaped"
          /\ cap.child = "reaped" => cap.reader = "done")

\* a portal capturer whose child had written all its frames was closed, and
\* Close has returned
C37_Witness ==
    /\ cap.pc = "closed" /\ cap.backend = "portal" /\ cap.result = "capturer"
    /\ cap.produced = MaxChildFrames /\ cap.reader = "done"
    /\ cap.released = <<"cancel", "reader", "reap", "pwFile", "dbConn">>

\* a media-tool capturer was closed
C37_WitnessFFmpeg ==
    /\ cap.pc = "closed" /\ cap.backend = "ffmpeg"
    /\ cap.released = <<"cancel", "reader", "reap">>

----------------------------------------------------------------------------
(* C38 *)

\* the wait of the step has returned a Response with code 0 that holds the
\* field the step needs
StepSucceeded(step) ==
    \E i \in 1..Len(fn.taken) :
        /\ fn.taken[i].step = step
        /\ fn.taken[i].sig.form = "ok" /\ fn.taken[i].sig.code = 0
        /\ NeededField(step) # "" => fn.taken[i].sig.field

\* what holds of C38, with the wait of a step in place of the Response of
\* the step: the calls issued are CreateSession, SelectSources, Start and
\* OpenPipeWireRemote in that order; each is issued only when the wait of
\* the step before it has returned a Response with code 0 and the needed
\* field, and no other Response lets a wait return without an error; a call
\* error, a non-zero code, a missing session handle or stream and a timeout
\* of the wait each end the negotiation with an error and the bus connection
\* closed; the child is spawned only after all four calls have succeeded,
\* with the connection and the descriptor open
C38_NegotiationOrder ==
    /\ [](fn.calls = SubSeq(PortalMethods, 1, Len(fn.calls)))
    /\ [](\A k \in 2..Len(fn.calls) : StepSucceeded(k - 1))
    /\ [](\A i \in 1..Len(fn.taken) : StepSucceeded(fn.taken[i].step))
    /\ [](Len(fn.taken) = (IF fn.pc \in {"subscribe", "call", "wait"} /\ fn.result = "none"
                           THEN fn.step - 1 ELSE Len(fn.taken)))
    /\ [](fn.result = "error" =>
            /\ fn.conn \in {"none", "closed"} /\ fn.child = "none" /\ fn.pc = "returned"
            /\ fn.pwFile \in {"none", "closed"} /\ fn.err # "")
    /\ [](fn.pc = "returned" => fn.result = "error")
    /\ [][(/\ fn.pc \in {"call", "wait", "OpenPipeWireRemote"} /\ fn'.pc # fn.pc
           /\ Len(fn'.calls) = Len(fn.calls) /\ Len(fn'.taken) = Len(fn.taken))
            => fn'.result = "error" /\ fn'.conn = "closed"]_vars
    /\ [][(fn.pc = "wait" /\ fn.queue[fn.step] # <<>> /\ fn'.pc = "wait"
            /\ Len(fn'.queue[fn.step]) < Len(fn.queue[fn.step]))
            => Head(fn.queue[fn.step]).form = "short"]_vars
    /\ [](fn.child # "none" =>
            /\ fn.calls = PortalMethods
            /\ \A k \in RequestSteps : StepSucceeded(k)
            /\ fn.conn = "open" /\ fn.pwFile = "open")

\* the portal has emitted, at the request path of the step, a Response with
\* code 0 and the needed field, and the wait of the step has returned it
StepAnswered(step) ==
    \E i \in 1..Len(fn.taken) :
        /\ fn.taken[i].step = step /\ fn.taken[i].sig.path = step
        /\ fn.taken[i].sig.form = "ok" /\ fn.taken[i].sig.code = 0
        /\ NeededField(step) # "" => fn.taken[i].sig.field

\* C38: the negotiation issues CreateSession, SelectSources, Start and
\* OpenPipeWireRemote in that order, each only after the step before it
\* succeeded, that is, its Response arrived with code 0 and the needed
\* field; a call error, a non-zero code, a missing session handle or stream
\* and a timeout close the bus connection and fail the factory; the child
\* is spawned only after all four steps succeeded.
C38_Claim ==
    /\ C38_NegotiationOrder
    /\ [](\A k \in 2..Len(fn.calls) : StepAnswered(k - 1))
    /\ [](fn.child # "none" => \A k \in RequestSteps : StepAnswered(k))

\* the child is running though the portal has never answered SelectSources:
\* the wait of that step returned a Response of the CreateSession request
C38_SpawnedUnanswered ==
    /\ fn.name = "acquirePipeWireNode" /\ fn.child = "running"
    /\ \A i \in 1..Len(fn.sent) : fn.sent[i].path # 2

\* the four calls succeeded and the child is running
C38_Witness ==
    /\ fn.name = "acquirePipeWireNode" /\ fn.child = "running"
    /\ fn.calls = PortalMethods /\ Len(fn.taken) = 3

\* the Start response held no stream: the negotiation failed after three calls
C38_WitnessNoStream ==
    /\ fn.name = "acquirePipeWireNode" /\ fn.result = "error"
    /\ fn.err = "no streams in response" /\ Len(fn.calls) = 3 /\ fn.conn = "closed"

\* the wait of SelectSources timed out: the negotiation failed after two calls
C38_WitnessTimeout ==
    /\ fn.name = "acquirePipeWireNode" /\ fn.result = "error"
    /\ fn.err = "timed out waiting for portal response" /\ Len(fn.calls) = 2
    /\ fn.conn = "closed"

----------------------------------------------------------------------------
(* C39 *)

\* C39: a step's wait accepts only a Response signal of the step's own
\* request path, and when a request is issued the rule and the channel for
\* its path are registered.
C39_Claim ==
    /\ [](\A i \in 1..Len(fn.taken) : fn.taken[i].sig.path = fn.taken[i].step)
    /\ [](\A k \in 1..Len(fn.calls) :
            k \in RequestSteps => (k \in fn.rules /\ k \in fn.registered))

\* the Response of CreateSession reached the connection a second time while
\* the negotiation waited for the Response of SelectSources, and was taken
\* as its answer: Start was called though SelectSources has not been answered
C39_LateSignalTaken ==
    /\ fn.name = "acquirePipeWireNode"
    /\ Len(fn.taken) = 2 /\ fn.taken[2].step = 2 /\ fn.taken[2].sig.path = 1
    /\ Len(fn.calls) = 3
    /\ \A i \in 1..Len(fn.sent) : fn.sent[i].path # 2

\* what holds: the subscription of a step is registered before its request
\* is issued, and no Response the portal emitted for an issued request is
\* lost on its way to the channel of the step that waits for it
C39_SubscribedBeforeRequest ==
    /\ [](\A k \in 1..Len(fn.calls) :
            k \in RequestSteps => (k \in fn.rules /\ k \in fn.registered))
    /\ [][\A sig \in PortalSignals :
            (fn.pc = "wait" /\ sig.path = fn.step /\ Len(fn'.sent) > Len(fn.sent)
                /\ fn'.sent[Len(fn'.sent)] = sig) =>
            fn'.queue[fn.step] = Append(fn.queue[fn.step], sig)]_vars

----------------------------------------------------------------------------
(* C40 *)

\* the states from Pairing to Stopping, and those from InputDelay to Stopping
BridgeStates ==
    {statePairing, statePairingWait, stateFetchingAreas, stateSelectingArea,
     stateInputDelay, stateActivating, stateConnecting, stateStreaming, stateStopping}
AreaStates ==
    {stateInputDelay, stateActivating, stateConnecting, stateStreaming, stateStopping}

\* what the handlers read through the references is there: the handlers of
\* the results of pair, fetch, activate and connect read the bridge, those of
\* activate and connect the area, the tick in Streaming the streamer; and
\* the commands they start carry the address of the selected bridge, the id
\* of the selected area and the streamer of the model
HandlersFindReferences ==
    /\ [][\A msg \in msgs : Handled(msg) =>
            /\ msg.type \in {"pairResult", "areasFetched", "activateResult", "connectResult"}
                  => m.selected # Nil
            /\ msg.type \in {"activateResult", "connectResult"} => m.selectedArea # Nil
            /\ (msg.type = "streamTick" /\ m.state = stateStreaming) => m.streamer # Nil]_vars
    /\ [][\A c \in Started :
            /\ c.kind \in {"pair", "fetch", "activate", "connect", "stop"}
                  => m'.selected # Nil /\ c.ip = Deref(m'.selected).IP
            /\ c.kind \in {"activate", "connect", "stop"}
                  => m'.selectedArea # Nil /\ c.areaID = Deref(m'.selectedArea).ID
            /\ c.kind = "frame" => c.s # Nil /\ c.s = m'.streamer]_vars

\* the streamer of the model exists and its transport has not been closed
LiveStreamer == m.streamer # Nil /\ strm # Nil /\ Deref(strm).conn = "open"

\* C40 as stated: a bridge is selected in Pairing, PairingWait, FetchingAreas
\* and every later state, Done included; an area is selected in InputDelay,
\* Activating, Connecting, Streaming and Stopping; the streamer is live in
\* Streaming; no handler acts on a missing bridge, area or streamer.
C40_Claim ==
    /\ [](m.state \in BridgeStates \cup {stateDone} => m.selected # Nil)
    /\ [](m.state \in AreaStates => m.selectedArea # Nil)
    /\ [](m.state = stateStreaming => LiveStreamer)
    /\ HandlersFindReferences

\* C40, amended: a bridge is selected in every state from Pairing to
\* Stopping (Done is also reached from Scanning, with no bridge); an area is
\* selected in every state from InputDelay to Stopping; the streamer is live
\* in Streaming; no handler of any event, a quit key included, acts on a
\* missing bridge, area or streamer.
C40_ReferencesSet ==
    /\ [](m.state \in BridgeStates => m.selected # Nil)
    /\ [](m.state \in AreaStates => m.selectedArea # Nil)
    /\ [](m.state = stateStreaming => LiveStreamer)
    /\ HandlersFindReferences

\* the quit key was pressed in Streaming: the stop action in flight carries
\* the streamer, the address of the bridge and the id of the area
C40_Witness ==
    /\ m.state = stateStopping /\ ~terminated /\ m.streamer # Nil
    /\ \E c \in cmds :
        /\ c.kind = "stop" /\ c.s = m.streamer
        /\ c.ip = Deref(m.selected).IP /\ c.areaID = Deref(m.selectedArea).ID

\* the scan failed: the program is in Done and no bridge was ever selected
C40_DoneWithoutBridge ==
    terminated /\ m.state = stateDone /\ m.selected = Nil /\ m.err # ""

====
